---- MODULE Spec2Model ----
(***************************************************************************)
(* kurl (YOURLS shortener for Firefox): the background script's message    *)
(* router, its API operations and the helper functions they use.           *)
(*                                                                         *)
(* Strings are TLA+ strings; TLC evaluates Len, SubSeq and \o on them, so  *)
(* the string functions of the program (trim, replace, startsWith, regex   *)
(* tests, URL and JSON parsing) are computed character by character.       *)
(***************************************************************************)
EXTENDS Integers, Sequences, FiniteSets, TLC

(***************************************************************************)
(* String primitives (JavaScript String methods used by the program).      *)
(***************************************************************************)
CharAt(s, i) == SubSeq(s, i, i)

From(s, i) == SubSeq(s, i, Len(s))

Min(a, b) == IF a < b THEN a ELSE b

LowerChars == "abcdefghijklmnopqrstuvwxyz"

Digits == "0123456789"

\* 0 when c does not occur in alphabet, else its first index
PosIn(c, alphabet) ==
  IF \E i \in 1..Len(alphabet) : CharAt(alphabet, i) = c
  THEN CHOOSE i \in 1..Len(alphabet) :
         /\ CharAt(alphabet, i) = c
         /\ \A j \in 1..(i - 1) : CharAt(alphabet, j) # c
  ELSE 0

\* the least and the greatest element of a non-empty set of integers
MinOf(S) == CHOOSE i \in S : \A j \in S : i <= j

MaxOf(S) == CHOOSE i \in S : \A j \in S : j <= i

\* the lower-case form of the character c
LowerChar(c) ==
  IF PosIn(c, "ABCDEFGHIJKLMNOPQRSTUVWXYZ") = 0 THEN c ELSE CharAt(LowerChars, PosIn(c, "ABCDEFGHIJKLMNOPQRSTUVWXYZ"))

\* String.prototype.toLowerCase, by halves to keep the recursion shallow
RECURSIVE ToLower(_)
ToLower(s) ==
  IF Len(s) <= 1 THEN LowerChar(s)
  ELSE ToLower(SubSeq(s, 1, Len(s) \div 2)) \o ToLower(From(s, (Len(s) \div 2) + 1))

IsDigit(c) == PosIn(c, Digits) # 0

\* \s of a JavaScript regular expression, restricted to the ASCII cases
SpaceChars == {" ", "\t", "\n", "\r"}

\* index of the first character of s, at or after 'from', that is in cs;
\* Len(s) + 1 when there is none
FirstOf(s, cs, from) ==
  IF \E i \in from..Len(s) : CharAt(s, i) \in cs
  THEN MinOf({ i \in from..Len(s) : CharAt(s, i) \in cs })
  ELSE Len(s) + 1

\* index of the first character of s, at or after 'from', that is not in cs;
\* Len(s) + 1 when there is none
FirstNotOf(s, cs, from) ==
  IF \E i \in from..Len(s) : CharAt(s, i) \notin cs
  THEN MinOf({ i \in from..Len(s) : CharAt(s, i) \notin cs })
  ELSE Len(s) + 1

\* index of the last character of s that is not in cs; 0 when there is none
LastNotOf(s, cs) ==
  IF \E i \in 1..Len(s) : CharAt(s, i) \notin cs
  THEN MaxOf({ i \in 1..Len(s) : CharAt(s, i) \notin cs })
  ELSE 0

\* s without its characters in cs, by halves
RECURSIVE Without(_, _)
Without(s, cs) ==
  IF Len(s) <= 1 THEN (IF s \in cs THEN "" ELSE s)
  ELSE Without(SubSeq(s, 1, Len(s) \div 2), cs) \o Without(From(s, (Len(s) \div 2) + 1), cs)

StartsWith(s, p) == Len(p) <= Len(s) /\ SubSeq(s, 1, Len(p)) = p

EndsWith(s, p) == Len(p) <= Len(s) /\ SubSeq(s, Len(s) - Len(p) + 1, Len(s)) = p

\* String.prototype.indexOf (1-based); 0 when absent
IndexOf(s, p) ==
  IF \E i \in 1..(Len(s) - Len(p) + 1) : SubSeq(s, i, i + Len(p) - 1) = p
  THEN MinOf({ i \in 1..(Len(s) - Len(p) + 1) : SubSeq(s, i, i + Len(p) - 1) = p })
  ELSE 0

Contains(s, p) == IndexOf(s, p) # 0

\* String.prototype.trim
Trim(s) == SubSeq(s, FirstNotOf(s, SpaceChars, 1), LastNotOf(s, SpaceChars))

\* s.replace(/\/+$/, "")
StripTrailingSlashes(s) == SubSeq(s, 1, LastNotOf(s, {"/"}))

\* String(n) for a natural number n
RECURSIVE NatToStr(_)
NatToStr(n) ==
  IF n < 10 THEN CharAt(Digits, n + 1)
  ELSE NatToStr(n \div 10) \o CharAt(Digits, (n % 10) + 1)

\* the value of a non-empty string of decimal digits
RECURSIVE StrToNat(_)
StrToNat(s) ==
  IF Len(s) = 1 THEN PosIn(s, Digits) - 1
  ELSE 10 * StrToNat(SubSeq(s, 1, Len(s) - 1)) + (PosIn(CharAt(s, Len(s)), Digits) - 1)

\* index of the last occurrence of the character c in s; 0 when absent
LastIndexOf(s, c) ==
  IF \E i \in 1..Len(s) : CharAt(s, i) = c
  THEN MaxOf({ i \in 1..Len(s) : CharAt(s, i) = c })
  ELSE 0

(***************************************************************************)
(* new URL(s): the WHATWG URL parser, for the URL shapes the extension     *)
(* meets: a scheme, and for http/https an authority (userinfo, host,       *)
(* port), a path, a query and a fragment.  Not modelled: dot segments,     *)
(* IPv6/IDNA hosts, percent-encoding other than of spaces in the path.     *)
(***************************************************************************)
NoURL ==
  [ok |-> FALSE, scheme |-> "", host |-> "", port |-> "", pathname |-> "",
   search |-> "", origin |-> ""]

ValidScheme(sch) ==
  /\ sch # ""
  /\ PosIn(LowerChar(CharAt(sch, 1)), LowerChars) # 0
  /\ \A i \in 1..Len(sch) :
       \/ PosIn(LowerChar(CharAt(sch, i)), LowerChars) # 0
       \/ IsDigit(CharAt(sch, i))
       \/ CharAt(sch, i) \in {"+", "-", "."}

\* the path percent-encode set, for the space character; by halves
RECURSIVE EncodePath(_)
EncodePath(s) ==
  IF Len(s) <= 1 THEN (IF s = " " THEN "%20" ELSE s)
  ELSE EncodePath(SubSeq(s, 1, Len(s) \div 2)) \o EncodePath(From(s, (Len(s) \div 2) + 1))

\* the port of a parsed URL: "" for no port or the scheme's default port
PortOf(scheme, portStr) ==
  IF portStr = "" \/ StrToNat(portStr) = (IF scheme = "http" THEN 80 ELSE 443) THEN ""
  ELSE NatToStr(StrToNat(portStr))

\* the URL record of an http(s) URL from its parts: a failure for an empty
\* host, a forbidden host code point or a port that is no number up to 65535
SpecialURL(scheme, host, portStr, rawPath, query) ==
  IF \/ host = ""
     \/ \E i \in 1..Len(host) :
          CharAt(host, i) \in {" ", "<", ">", "^", "|", "%", "[", "]", "\\", "\""}
     \/ /\ portStr # ""
        /\ \/ \E i \in 1..Len(portStr) : ~IsDigit(CharAt(portStr, i))
           \/ Len(portStr) > 5
           \/ StrToNat(portStr) > 65535
  THEN NoURL
  ELSE [ok |-> TRUE, scheme |-> scheme, host |-> host, port |-> PortOf(scheme, portStr),
        pathname |-> IF rawPath = "" THEN "/" ELSE EncodePath(rawPath),
        search |-> IF query = "?" THEN "" ELSE query,
        origin |-> scheme \o "://" \o host
                     \o (IF PortOf(scheme, portStr) = "" THEN ""
                         ELSE ":" \o PortOf(scheme, portStr))]

\* hostport is the authority without its userinfo
SplitHostPort(scheme, hostport, rawPath, query) ==
  SpecialURL(scheme,
             ToLower(IF IndexOf(hostport, ":") = 0 THEN hostport
                     ELSE SubSeq(hostport, 1, IndexOf(hostport, ":") - 1)),
             IF IndexOf(hostport, ":") = 0 THEN ""
             ELSE From(hostport, IndexOf(hostport, ":") + 1),
             rawPath, query)

\* r is the URL after the scheme and its slashes; the authority ends before
\* aEnd, the path before pEnd, the query before qEnd
SplitSpecial(scheme, r, aEnd, pEnd, qEnd) ==
  SplitHostPort(scheme, SubSeq(r, LastIndexOf(SubSeq(r, 1, aEnd - 1), "@") + 1, aEnd - 1),
                SubSeq(r, aEnd, pEnd - 1), SubSeq(r, pEnd, qEnd - 1))

\* an http(s) URL, after the "special authority ignore slashes" state
ParseSpecial(scheme, r) ==
  SplitSpecial(scheme, r, FirstOf(r, {"/", "?", "#"}, 1), FirstOf(r, {"?", "#"}, 1),
               FirstOf(r, {"#"}, 1))

\* a URL of a non-special scheme (about:, mailto:, ...): opaque origin
ParseOpaque(scheme, r) ==
  [ok |-> TRUE, scheme |-> scheme, host |-> "", port |-> "",
   pathname |-> SubSeq(r, 1, FirstOf(r, {"?", "#"}, 1) - 1),
   search |-> IF SubSeq(r, FirstOf(r, {"?", "#"}, 1), FirstOf(r, {"#"}, 1) - 1) = "?" THEN ""
              ELSE SubSeq(r, FirstOf(r, {"?", "#"}, 1), FirstOf(r, {"#"}, 1) - 1),
   origin |-> "null"]

\* scheme is the lower-cased text before the first ':', rest what follows it
ParseAfterScheme(scheme, rest) ==
  IF ~ValidScheme(scheme) THEN NoURL
  ELSE IF scheme \in {"http", "https"}
       THEN ParseSpecial(scheme, From(rest, FirstNotOf(rest, {"/", "\\"}, 1)))
  ELSE ParseOpaque(scheme, rest)

\* s is the input without leading and trailing spaces, tabs and newlines
ParseClean(s) ==
  IF IndexOf(s, ":") = 0 THEN NoURL
  ELSE ParseAfterScheme(ToLower(SubSeq(s, 1, IndexOf(s, ":") - 1)), From(s, IndexOf(s, ":") + 1))

ParseURL(raw) == ParseClean(Without(Trim(raw), {"\t", "\n", "\r"}))

(***************************************************************************)
(* helpers.js                                                              *)
(***************************************************************************)
\* x is new URL(u), not ok when the constructor throws
OriginAndPath(x) == IF ~x.ok THEN "" ELSE x.origin \o StripTrailingSlashes(x.pathname)

sanitizeBaseUrl(u) ==
  IF u = "" THEN ""
  ELSE OriginAndPath(ParseURL(StripTrailingSlashes(Without(Trim(u), SpaceChars))))

\* s is the trimmed input, u is new URL(s), b is new URL(base)
KeywordOf(base, s, u, b) ==
  IF ~u.ok THEN s
  ELSE IF base # "" /\ ~b.ok THEN s
  ELSE IF base # "" /\ u.origin = b.origin THEN From(StripTrailingSlashes(u.pathname),
                 LastIndexOf(StripTrailingSlashes(u.pathname), "/") + 1)
  ELSE s

\* extractKeyword without the comparison of the origins
extractKeywordAnyOrigin(base, s) ==
  IF s = "" THEN ""
  ELSE IF ParseURL(Trim(s)).ok
       THEN From(StripTrailingSlashes(ParseURL(Trim(s)).pathname),
                 LastIndexOf(StripTrailingSlashes(ParseURL(Trim(s)).pathname), "/") + 1)
  ELSE Trim(s)

extractKeyword(base, s) ==
  IF s = "" THEN "" ELSE KeywordOf(base, Trim(s), ParseURL(Trim(s)), ParseURL(base))

(***************************************************************************)
(* JavaScript values that come out of JSON.parse, as records of one shape: *)
(* t is the type tag, s the string, n the number, b the boolean, ks and vs *)
(* the keys and the values of an object in source order.                   *)
(***************************************************************************)
JVal(t, s, n, b, ks, vs) == [t |-> t, s |-> s, n |-> n, b |-> b, ks |-> ks, vs |-> vs]

JNull == JVal("null", "", 0, FALSE, <<>>, <<>>)

JUndefined == JVal("undefined", "", 0, FALSE, <<>>, <<>>)

JStr(s) == JVal("string", s, 0, FALSE, <<>>, <<>>)

JNum(n) == JVal("number", "", n, FALSE, <<>>, <<>>)

JBool(b) == JVal("boolean", "", 0, b, <<>>, <<>>)

JObj(ks, vs) == JVal("object", "", 0, FALSE, ks, vs)

\* ToBoolean
Truthy(v) ==
  CASE v.t = "string"  -> v.s # ""
    [] v.t = "number"  -> v.n # 0
    [] v.t = "boolean" -> v.b
    [] v.t = "object"  -> TRUE
    [] OTHER           -> FALSE

\* a || b
OrElse(a, b) == IF Truthy(a) THEN a ELSE b

\* v.k and v?.k: property k of v, undefined when v has none (a duplicate
\* key keeps its last value, as JSON.parse does)
Get(v, k) ==
  IF v.t # "object" \/ ~\E i \in 1..Len(v.ks) : v.ks[i] = k THEN JUndefined
  ELSE v.vs[MaxOf({ i \in 1..Len(v.ks) : v.ks[i] = k })]

\* String(v), and the coercion of a template literal or of RegExp.test
ToStr(v) ==
  CASE v.t = "string"  -> v.s
    [] v.t = "number"  -> IF v.n < 0 THEN "-" \o NatToStr(0 - v.n) ELSE NatToStr(v.n)
    [] v.t = "boolean" -> IF v.b THEN "true" ELSE "false"
    [] v.t = "object"  -> "[object Object]"
    [] v.t = "null"    -> "null"
    [] OTHER           -> "undefined"

(***************************************************************************)
(* background.js: the URL a toolbar or context-menu click is about         *)
(* (REDIRECT_PATTERNS, getUrlForAction).                                   *)
(***************************************************************************)
\* the value of the hexadecimal digit c, -1 when c is none
HexVal(c) == PosIn(LowerChar(c), "0123456789abcdef") - 1

RECURSIVE PercentDecode(_)

\* b is the index of the first '%' of s, 0 when it has none; the string
\* holds the printable ASCII characters from code 32 to code 126, a space
\* in the place of code 96, which a TLA+ string cannot hold; an escape of
\* another character stays as it is written
DecodeAt(s, b) ==
  IF b = 0 THEN s
  ELSE IF \/ b + 2 > Len(s)
          \/ HexVal(CharAt(s, b + 1)) < 0
          \/ HexVal(CharAt(s, b + 2)) < 0
          \/ 16 * HexVal(CharAt(s, b + 1)) + HexVal(CharAt(s, b + 2)) \notin (32..126) \ {96}
       THEN SubSeq(s, 1, b) \o PercentDecode(From(s, b + 1))
  ELSE SubSeq(s, 1, b - 1)
         \o CharAt(" !\"#$%&'()*+,-./0123456789:;<=>?@ABCDEFGHIJKLMNOPQRSTUVWXYZ[\\]^_ "
                     \o "abcdefghijklmnopqrstuvwxyz{|}~",
                   16 * HexVal(CharAt(s, b + 1)) + HexVal(CharAt(s, b + 2)) - 31)
         \o PercentDecode(From(s, b + 3))

\* percent-decoding, one recursion per '%'
PercentDecode(s) == DecodeAt(s, IndexOf(s, "%"))

\* '+' stands for a space in a query string; by halves
RECURSIVE PlusToSpace(_)
PlusToSpace(s) ==
  IF Len(s) <= 1 THEN (IF s = "+" THEN " " ELSE s)
  ELSE PlusToSpace(SubSeq(s, 1, Len(s) \div 2)) \o PlusToSpace(From(s, (Len(s) \div 2) + 1))

RECURSIVE searchParamsGet(_, _)

\* piece is the first name=value pair of a query, rest what follows its '&'
ParamAt(piece, rest, name) ==
  IF /\ piece # ""
     /\ PercentDecode(PlusToSpace(SubSeq(piece, 1, FirstOf(piece, {"="}, 1) - 1))) = name
  THEN JStr(PercentDecode(PlusToSpace(From(piece, FirstOf(piece, {"="}, 1) + 1))))
  ELSE searchParamsGet(rest, name)

\* URLSearchParams.get(name) for the query q (without its '?'): the value
\* of the first pair of that name, null when there is none
searchParamsGet(q, name) ==
  IF q = "" THEN JNull
  ELSE ParamAt(SubSeq(q, 1, FirstOf(q, {"&"}, 1) - 1), From(q, FirstOf(q, {"&"}, 1) + 1), name)

REDIRECT_PATTERNS ==
  << [host_prefix |-> "www.google.", path |-> "/url", param |-> "url", prefix_to_strip |-> ""],
     [host_prefix |-> "www.bing.com", path |-> "/ck/a", param |-> "u", prefix_to_strip |-> "a1"],
     [host_prefix |-> "duckduckgo.com", path |-> "/l/", param |-> "uddg", prefix_to_strip |-> ""],
     [host_prefix |-> "www.youtube.com", path |-> "/redirect", param |-> "q",
      prefix_to_strip |-> ""] >>

\* StripPrefix leaving the prefix in place
StripPrefixNever(realUrl, prefix) == realUrl

\* realUrl with the pattern's prefix_to_strip removed
StripPrefix(realUrl, prefix) ==
  IF prefix # "" /\ StartsWith(realUrl, prefix) THEN From(realUrl, Len(prefix) + 1)
  ELSE realUrl

\* the loop over REDIRECT_PATTERNS from pattern i on, for the parsed link
RECURSIVE CleanFrom(_, _, _)
CleanFrom(link, urlObject, i) ==
  IF i > Len(REDIRECT_PATTERNS) THEN link
  ELSE IF /\ StartsWith(urlObject.host, REDIRECT_PATTERNS[i].host_prefix)
          /\ StartsWith(urlObject.pathname, REDIRECT_PATTERNS[i].path)
          /\ Truthy(searchParamsGet(From(urlObject.search, 2), REDIRECT_PATTERNS[i].param))
       THEN StripPrefix(searchParamsGet(From(urlObject.search, 2), REDIRECT_PATTERNS[i].param).s,
                        REDIRECT_PATTERNS[i].prefix_to_strip)
  ELSE CleanFrom(link, urlObject, i + 1)

\* the cleaning of a link: the link itself when `new URL(link)` throws
CleanRedirect(link) ==
  IF ~ParseURL(link).ok THEN link ELSE CleanFrom(link, ParseURL(link), 1)

\* the indices of selectionText where /https?:\/\/\S+/ matches
HttpStarts(sel) ==
  { p \in 1..Len(sel) :
      \/ /\ p + 7 <= Len(sel)
         /\ SubSeq(sel, p, p + 6) = "http://"
         /\ CharAt(sel, p + 7) \notin SpaceChars
      \/ /\ p + 8 <= Len(sel)
         /\ SubSeq(sel, p, p + 7) = "https://"
         /\ CharAt(sel, p + 8) \notin SpaceChars }

\* selectionText.match(/https?:\/\/\S+/)[0], "" when there is no match
SelectionUrl(sel) ==
  IF HttpStarts(sel) = {} THEN ""
  ELSE SubSeq(sel, MinOf(HttpStarts(sel)), FirstOf(sel, SpaceChars, MinOf(HttpStarts(sel))) - 1)

\* getUrlForAction without the test of the tab's URL
getUrlForActionAnyTab(info, tab) ==
  IF info.linkUrl # "" THEN CleanRedirect(info.linkUrl)
  ELSE IF info.selectionText # "" /\ SelectionUrl(info.selectionText) # ""
       THEN SelectionUrl(info.selectionText)
  ELSE tab.url

\* info and tab are the arguments of the click; a missing field is ""
getUrlForAction(info, tab) ==
  IF info.linkUrl # "" THEN CleanRedirect(info.linkUrl)
  ELSE IF info.selectionText # "" /\ SelectionUrl(info.selectionText) # ""
       THEN SelectionUrl(info.selectionText)
  ELSE IF tab.url # "" /\ ~StartsWith(tab.url, "about:") THEN tab.url
  ELSE ""

(***************************************************************************)
(* JSON.parse for the grammar: value = object | string | number | true |   *)
(* false | null, with spaces between tokens and the string escapes \" \\   *)
(* and \/.  Arrays, fractions, exponents and other escapes are outside the *)
(* grammar and do not occur in the modelled bodies.  A parse step yields   *)
(* [ok, val, next]: success, the value, the index after it.                *)
(***************************************************************************)
PFail == [ok |-> FALSE, val |-> JNull, next |-> 0]

POk(v, next) == [ok |-> TRUE, val |-> v, next |-> next]

SkipWs(t, i) == FirstNotOf(t, SpaceChars, i)

\* whether the characters of t from i up to j - 1 end in an even number of
\* backslashes, so that a quote at j is not escaped
EvenBackslashes(t, i, j) ==
  \E k \in (i - 1)..(j - 1) :
    /\ (j - 1 - k) % 2 = 0
    /\ k = i - 1 \/ CharAt(t, k) # "\\"
    /\ \A m \in (k + 1)..(j - 1) : CharAt(t, m) = "\\"

RECURSIVE Unescape(_)

\* rest is the unescaped text after an escape, prefix the text up to it
PrependTo(prefix, rest) == [ok |-> rest.ok, s |-> prefix \o rest.s]

\* b is the index of the first backslash of raw, 0 when it has none
UnescapeAt(raw, b) ==
  IF b = 0 THEN [ok |-> TRUE, s |-> raw]
  ELSE IF b = Len(raw) \/ CharAt(raw, b + 1) \notin {"\"", "\\", "/"}
       THEN [ok |-> FALSE, s |-> ""]
  ELSE PrependTo(SubSeq(raw, 1, b - 1) \o CharAt(raw, b + 1), Unescape(From(raw, b + 2)))

\* the value of the raw content of a string literal: escapes replaced, one
\* recursion per escape; ok is FALSE for an escape outside the grammar
Unescape(raw) == UnescapeAt(raw, IndexOf(raw, "\\"))

\* index of the quote that closes the string literal starting at i, 0 if none
ClosingQuote(t, i) ==
  IF \E j \in i..Len(t) : CharAt(t, j) = "\"" /\ EvenBackslashes(t, i, j)
  THEN MinOf({ j \in i..Len(t) : CharAt(t, j) = "\"" /\ EvenBackslashes(t, i, j) })
  ELSE 0

\* the string literal with the raw content raw, followed by index next
StringOfRaw(raw, next) ==
  IF \E k \in 1..Len(raw) : CharAt(raw, k) \in {"\n", "\t", "\r"} THEN PFail
  ELSE IF ~Unescape(raw).ok THEN PFail
  ELSE POk(JStr(Unescape(raw).s), next)

\* the string literal whose opening quote is at i - 1
ParseStringBody(t, i) ==
  IF ClosingQuote(t, i) = 0 THEN PFail
  ELSE StringOfRaw(SubSeq(t, i, ClosingQuote(t, i) - 1), ClosingQuote(t, i) + 1)

\* the number whose digits are at i..e-1
NumberUpTo(t, i, e) ==
  IF e = i \/ (e - i > 1 /\ CharAt(t, i) = "0") THEN PFail
  ELSE POk(JNum(StrToNat(SubSeq(t, i, e - 1))), e)

ParseNumber(t, i) ==
  NumberUpTo(t, i, FirstNotOf(t, {"0", "1", "2", "3", "4", "5", "6", "7", "8", "9"}, i))

RECURSIVE ParseValue(_, _)
RECURSIVE ParseMembers(_, _, _, _)

\* after a member: d is the index of the next token
MemberEnd(t, d, ks, vs) ==
  IF d > Len(t) THEN PFail
  ELSE IF CharAt(t, d) = "}" THEN POk(JObj(ks, vs), d + 1)
  ELSE IF CharAt(t, d) = "," THEN ParseMembers(t, SkipWs(t, d + 1), ks, vs)
  ELSE PFail

MemberAfterValue(t, val, ks, vs) ==
  IF ~val.ok THEN PFail ELSE MemberEnd(t, SkipWs(t, val.next), ks, Append(vs, val.val))

\* after the key k of a member: c is the index of the next token
MemberAtColon(t, k, c, ks, vs) ==
  IF c > Len(t) \/ CharAt(t, c) # ":" THEN PFail
  ELSE MemberAfterValue(t, ParseValue(t, SkipWs(t, c + 1)), Append(ks, k), vs)

MemberAfterKey(t, key, ks, vs) ==
  IF ~key.ok THEN PFail ELSE MemberAtColon(t, key.val.s, SkipWs(t, key.next), ks, vs)

\* the members of an object, from the key at i; ks and vs are those read so far
ParseMembers(t, i, ks, vs) ==
  IF i > Len(t) \/ CharAt(t, i) # "\"" THEN PFail
  ELSE MemberAfterKey(t, ParseStringBody(t, i + 1), ks, vs)

\* the object whose first token after '{' is at j
ParseObject(t, j) ==
  IF j <= Len(t) /\ CharAt(t, j) = "}" THEN POk(JObj(<<>>, <<>>), j + 1)
  ELSE ParseMembers(t, j, <<>>, <<>>)

\* the literal word (null, true, false) expected at i
ParseLiteral(t, i, word, v) ==
  IF SubSeq(t, i, Min(i + Len(word) - 1, Len(t))) = word THEN POk(v, i + Len(word)) ELSE PFail

ParseValue(t, i) ==
  IF i > Len(t) THEN PFail
  ELSE CASE CharAt(t, i) = "{"  -> ParseObject(t, SkipWs(t, i + 1))
         [] CharAt(t, i) = "\"" -> ParseStringBody(t, i + 1)
         [] IsDigit(CharAt(t, i)) -> ParseNumber(t, i)
         [] CharAt(t, i) = "n"  -> ParseLiteral(t, i, "null", JNull)
         [] CharAt(t, i) = "t"  -> ParseLiteral(t, i, "true", JBool(TRUE))
         [] CharAt(t, i) = "f"  -> ParseLiteral(t, i, "false", JBool(FALSE))
         [] OTHER    -> PFail

\* r is the parse of the value at the start of t: whether it is all of t
ParsedWhole(t, r) == r.ok /\ SkipWs(t, r.next) = Len(t) + 1

\* whether JSON.parse(t) returns rather than throws
JsonParses(t) == ParsedWhole(t, ParseValue(t, SkipWs(t, 1)))

parseMaybeJson(t) == IF JsonParses(t) THEN ParseValue(t, SkipWs(t, 1)).val ELSE JNull

\* extractShort preferring the synthesized keyword URL to the other shapes
extractShortKeywordFirst(json, base) ==
  IF ~Truthy(json) THEN JNull
  ELSE IF Truthy(Get(json, "keyword"))
       THEN JStr(StripTrailingSlashes(base) \o "/" \o ToStr(Get(json, "keyword")))
  ELSE IF Truthy(Get(json, "shorturl")) THEN Get(json, "shorturl")
  ELSE IF Truthy(Get(Get(json, "url"), "shorturl")) THEN Get(Get(json, "url"), "shorturl")
  ELSE IF Truthy(Get(Get(json, "link"), "shorturl")) THEN Get(Get(json, "link"), "shorturl")
  ELSE JNull

extractShort(json, base) ==
  IF ~Truthy(json) THEN JNull
  ELSE IF Truthy(Get(json, "shorturl")) THEN Get(json, "shorturl")
  ELSE IF Truthy(Get(Get(json, "url"), "shorturl")) THEN Get(Get(json, "url"), "shorturl")
  ELSE IF Truthy(Get(Get(json, "link"), "shorturl")) THEN Get(Get(json, "link"), "shorturl")
  ELSE IF Truthy(Get(json, "keyword"))
       THEN JStr(StripTrailingSlashes(base) \o "/" \o ToStr(Get(json, "keyword")))
  ELSE JNull

(***************************************************************************)
(* background.js: the regular expressions of the response normalizers.     *)
(***************************************************************************)
\* /<a>.*<b>/.test(low), for literals a and b; '.' matches no line break
MatchDotStarIn(low, a, b) ==
  \E i \in 1..Len(low) : \E j \in (i + Len(a))..Len(low) :
    /\ i + Len(a) - 1 <= Len(low)
    /\ SubSeq(low, i, i + Len(a) - 1) = a
    /\ j + Len(b) - 1 <= Len(low)
    /\ SubSeq(low, j, j + Len(b) - 1) = b
    /\ \A k \in (i + Len(a))..(j - 1) : CharAt(low, k) \notin {"\n", "\r"}

\* /<a>.*<b>/i.test(s), a and b in lower case
MatchDotStar(s, a, b) == MatchDotStarIn(ToLower(s), a, b)

\* /keyword.*already exists/i.test(s)
TestKeywordExists(s) == MatchDotStar(s, "keyword", "already exists")

\* the literal that opens /\(short URL: (https?:\/\/\S+)\)/i, in lower case
ShortUrlOpen == "(short url: "

\* the index after "http://" or "https://" at index q of low, 0 if neither
CaptureBody(low, q) ==
  IF q > Len(low) THEN 0
  ELSE IF SubSeq(low, q, Min(q + 7, Len(low))) = "https://" THEN q + 8
  ELSE IF SubSeq(low, q, Min(q + 6, Len(low))) = "http://" THEN q + 7
  ELSE 0

\* the regular expression matches s from index p with a capture ending at e;
\* body is the index where the \S+ of the capture starts
IsShortUrlMatch(s, low, p, e, body) ==
  /\ p + Len(ShortUrlOpen) - 1 <= Len(low)
  /\ SubSeq(low, p, p + Len(ShortUrlOpen) - 1) = ShortUrlOpen
  /\ body # 0
  /\ e >= body
  /\ e + 1 <= Len(s)
  /\ CharAt(s, e + 1) = ")"
  /\ \A k \in body..e : CharAt(s, k) \notin SpaceChars

ShortUrlMatchesIn(s, low) ==
  { pe \in (1..Len(s)) \X (1..Len(s)) :
      IsShortUrlMatch(s, low, pe[1], pe[2], CaptureBody(low, pe[1] + Len(ShortUrlOpen))) }

\* the capture of the leftmost of the matches ms, its \S+ as long as it can
\* be; "" when there is no match
CaptureOf(s, ms) ==
  IF ms = {} THEN ""
  ELSE SubSeq(s, MinOf({ m[1] : m \in ms }) + Len(ShortUrlOpen),
              MaxOf({ m[2] : m \in { n \in ms : n[1] = MinOf({ m[1] : m \in ms }) } }))

\* String(s).match(/\(short URL: (https?:\/\/\S+)\)/i)[1], "" when there is
\* no match
ShortUrlCapture(s) == CaptureOf(s, ShortUrlMatchesIn(s, ToLower(s)))

(***************************************************************************)
(* Results.  An envelope is the object a message handler resolves to;      *)
(* 'fields' names the properties it has.  An outcome is how an API         *)
(* function ends: it returns an envelope (k = "env"), returns a JSON value *)
(* (k = "value"), or throws an Error with message err (k = "throw").       *)
(* 'toast' is the message key of the notification it showed, "" if none;   *)
(* 'raised' tells that an exception was raised on the way, caught or not.  *)
(***************************************************************************)
Envelope(ok, fields, reason, shortUrl, already, data, total) ==
  [ok |-> ok, fields |-> fields, reason |-> reason, shortUrl |-> shortUrl,
   already |-> already, data |-> data, total |-> total]

FailEnv(reason) == Envelope(FALSE, {"ok", "reason"}, reason, JUndefined, FALSE, JUndefined, JUndefined)

ShortenEnv(shortUrl, already) ==
  Envelope(TRUE, {"ok", "shortUrl", "already"}, "", shortUrl, already, JUndefined, JUndefined)

DeleteEnv == Envelope(TRUE, {"ok"}, "", JUndefined, FALSE, JUndefined, JUndefined)

DataEnv(data) == Envelope(TRUE, {"ok", "data"}, "", JUndefined, FALSE, data, JUndefined)

NoEnv == Envelope(FALSE, {}, "", JUndefined, FALSE, JUndefined, JUndefined)

NoOutcome ==
  [k |-> "none", env |-> NoEnv, val |-> JUndefined, err |-> "", toast |-> "", raised |-> FALSE]

Returned(env, toast) ==
  [k |-> "env", env |-> env, val |-> JUndefined, err |-> "", toast |-> toast, raised |-> FALSE]

ReturnedValue(v) ==
  [k |-> "value", env |-> NoEnv, val |-> v, err |-> "", toast |-> "", raised |-> FALSE]

Thrown(message) ==
  [k |-> "throw", env |-> NoEnv, val |-> JUndefined, err |-> message, toast |-> "",
   raised |-> TRUE]

\* browser.i18n.getMessage(key): the localized text, kept symbolic
getMessage(key) == "__MSG_" \o key \o "__"

\* Response.ok
ResOk(status) == status >= 200 /\ status <= 299

\* `HTTP ${res.status}${text ? ": " + text.slice(0, n) : ""}`
HttpError(status, text, n) ==
  "HTTP " \o NatToStr(status) \o (IF text # "" THEN ": " \o SubSeq(text, 1, Min(n, Len(text))) ELSE "")

(***************************************************************************)
(* background.js: what each API function does with the response of         *)
(* yourlsFetch (status, text, json = parseMaybeJson(text)).                *)
(***************************************************************************)
apiDbStatsResult(status, text) ==
  IF ~ResOk(status) \/ ~Truthy(parseMaybeJson(text))
  THEN Thrown(getMessage("errorStatsFailed"))
  ELSE ReturnedValue(parseMaybeJson(text))

\* apiStatsResult without the test of status 404
apiStatsResultNo404(status, text) ==
  IF ~ResOk(status) THEN Thrown(HttpError(status, text, 100))
  ELSE ReturnedValue(parseMaybeJson(text))

apiStatsResult(status, text) ==
  IF ~ResOk(status)
  THEN IF status = 404 THEN Thrown(getMessage("popupErrorStatsNotFound"))
       ELSE Thrown(HttpError(status, text, 100))
  ELSE ReturnedValue(parseMaybeJson(text))

\* the "already exists" branch of apiShorten: the short URL in parentheses
\* in json.message, else extractShort
ShortenExisting(json, base) ==
  Returned(ShortenEnv(IF ShortUrlCapture(ToStr(Get(json, "message"))) # ""
                      THEN JStr(ShortUrlCapture(ToStr(Get(json, "message"))))
                      ELSE extractShort(json, base),
                      TRUE),
           "toastUrlExists")

\* ShortenNew without the test of res.ok
ShortenNewAnyStatus(status, text, json, base) ==
  IF Truthy(json) /\ Truthy(extractShort(json, base))
  THEN Returned(ShortenEnv(extractShort(json, base), FALSE), "toastUrlCreated")
  ELSE IF Get(json, "status") = JStr("fail") /\ Truthy(Get(json, "message"))
       THEN Thrown(ToStr(Get(json, "message")))
  ELSE Thrown(HttpError(status, text, 200))

\* ShortenNew never taking the message of the body for the error
ShortenNewGeneric(status, text, json, base) ==
  IF ResOk(status) /\ Truthy(json) /\ Truthy(extractShort(json, base))
  THEN Returned(ShortenEnv(extractShort(json, base), FALSE), "toastUrlCreated")
  ELSE Thrown(HttpError(status, text, 200))

\* apiShorten after the "already exists" branch
ShortenNew(status, text, json, base) ==
  IF ResOk(status) /\ Truthy(json) /\ Truthy(extractShort(json, base))
  THEN Returned(ShortenEnv(extractShort(json, base), FALSE), "toastUrlCreated")
  ELSE IF Get(json, "status") = JStr("fail") /\ Truthy(Get(json, "message"))
       THEN Thrown(ToStr(Get(json, "message")))
  ELSE Thrown(HttpError(status, text, 200))

\* the condition of the "already exists" branch
IsAlreadyExists(json) ==
  Truthy(json) /\ Contains(ToLower(ToStr(OrElse(Get(json, "message"), JStr("")))), "already exists")

\* apiShortenResult taking the "already exists" branch on an ok status only
apiShortenResultOkOnly(status, text, base) ==
  IF ResOk(status) /\ IsAlreadyExists(parseMaybeJson(text))
  THEN ShortenExisting(parseMaybeJson(text), base)
  ELSE ShortenNew(status, text, parseMaybeJson(text), base)

apiShortenResult(status, text, base) ==
  IF IsAlreadyExists(parseMaybeJson(text)) THEN ShortenExisting(parseMaybeJson(text), base)
  ELSE ShortenNew(status, text, parseMaybeJson(text), base)

\* isSuccess of apiDelete
isSuccess(j) ==
  /\ Truthy(j)
  /\ \/ Get(j, "status") = JStr("success")
     \/ MatchDotStar(ToStr(OrElse(Get(j, "message"), JStr(""))), "success", "deleted")
     \/ Get(j, "statusCode") = JNum(200)

\* `Delete failed: HTTP ${res.status} ${errorDetails ? `- ${errorDetails}` : ''}`
DeleteFailedText(status, json) ==
  "Delete failed: HTTP " \o NatToStr(status) \o " "
    \o (IF Truthy(OrElse(Get(json, "message"), OrElse(Get(json, "error"), JStr(""))))
        THEN "- " \o ToStr(OrElse(Get(json, "message"), OrElse(Get(json, "error"), JStr(""))))
        ELSE "")

\* apiDeleteResult without the notification
apiDeleteResultSilent(status, text) ==
  IF ResOk(status) /\ isSuccess(parseMaybeJson(text)) THEN Returned(DeleteEnv, "")
  ELSE Thrown(DeleteFailedText(status, parseMaybeJson(text)))

\* apiDeleteResult without the test of res.ok
apiDeleteResultAnyStatus(status, text) ==
  IF isSuccess(parseMaybeJson(text)) THEN Returned(DeleteEnv, "toastUrlDeleted")
  ELSE Thrown(DeleteFailedText(status, parseMaybeJson(text)))

apiDeleteResult(status, text) ==
  IF ResOk(status) /\ isSuccess(parseMaybeJson(text))
  THEN Returned(DeleteEnv, "toastUrlDeleted")
  ELSE Thrown(DeleteFailedText(status, parseMaybeJson(text)))

\* the operands of ??: null and undefined
Nullish(v) == v.t \in {"null", "undefined"}

\* json.total_links ?? json.stats?.total_links ?? "?"
TotalLinks(json) ==
  IF ~Nullish(Get(json, "total_links")) THEN Get(json, "total_links")
  ELSE IF ~Nullish(Get(Get(json, "stats"), "total_links"))
       THEN Get(Get(json, "stats"), "total_links")
  ELSE JStr("?")

apiCheckResult(status, text) ==
  IF ResOk(status) /\ Truthy(parseMaybeJson(text))
  THEN Returned(Envelope(TRUE, {"ok", "total"}, "", JUndefined, FALSE, JUndefined,
                     TotalLinks(parseMaybeJson(text))), "")
  ELSE Returned(FailEnv(getMessage("optionsStatusConnFailed")), "")

(***************************************************************************)
(* The environment: what the user stored, what the popup sends, what the   *)
(* YOURLS server answers.                                                  *)
(***************************************************************************)
\* browser.storage.local after installation (no key) or after
\* configuration, yourlsUrl as typed into the options page
Stores ==
  {<<>>} \cup
  { [k \in {"yourlsUrl", "apiSignature", "autoCopy"} |->
       CASE k = "yourlsUrl" -> JStr(u) [] k = "apiSignature" -> JStr(sg) [] OTHER -> JBool(TRUE)] :
     u \in {"", "https://go.example", " HTTPS://Go.Example/yourls/ ", "https://go .example//",
            "not a url", "about:blank", "localhost:8080"},
     sg \in {"", "s3cr3t"} }

Message(type, longUrl, keyword, shortUrl) ==
  [type |-> type, longUrl |-> longUrl, keyword |-> keyword, title |-> "", shortUrl |-> shortUrl]

\* the messages the popup may send, and one of an unknown type; v is the
\* short URL or keyword of a GET_STATS or DELETE_SHORTURL message
Messages ==
  {Message("CHECK_CONNECTION", "", "", ""), Message("GET_DB_STATS", "", "", ""),
   Message("PING", "", "", "")}
  \cup { Message("SHORTEN_URL", "https://x.test/page", kw, "") : kw \in {"", "abc"} }
  \cup { Message(t, "", "", v) :
           t \in {"GET_STATS", "DELETE_SHORTURL"},
           v \in {"", "abc123", " abc123 ", "https://go.example/abc123",
                  "https://go.example/yourls/abc123/", "https://go.example/",
                  "https://evil.test/abc123"} }

\* bodies of the server's answer
Bodies ==
  {"",
   "null",
   "<html><body>502 Bad Gateway</body></html>",
   "<!DOCTYPE html><html><head><title>500 Internal Server Error</title></head>"
     \o "<body><h1>Internal Server Error</h1><p>The server encountered an internal error and "
     \o "was unable to complete your request.</p><hr><address>Apache</address></body></html>",
   "Error: keyword abc already exists",
   "{\"status\":\"success\",\"shorturl\":\"https:\\/\\/go.example\\/zzz\",\"statusCode\":200}",
   "{\"message\":\"short URL already exists (short URL: https://go.example/xyz)\"}",
   "{\"status\":\"fail\",\"message\":\"URL Already Exists in database\",\"link\":{\"shorturl\":\"https://go.example/lnk\"}}",
   "{\"status\":\"fail\",\"code\":\"error:keyword\",\"message\":\"Keyword abc already exists in database\"}",
   "{\"status\":\"fail\",\"message\":\"Missing or malformed URL\"}",
   "{\"status\":\"fail\",\"error\":\"not allowed\"}",
   "{\"shorturl\":\"\",\"url\":{\"shorturl\":\"https://go.example/u1\"},\"keyword\":\"kw1\"}",
   "{\"keyword\":\"kw1\"}",
   "{\"message\":\"Success: link deleted\"}",
   "{\"statusCode\":200}",
   "{\"total_links\":\"42\"}",
   "{\"stats\":{\"total_links\":\"7\"}}"}

\* messages of the exceptions the browser raises
StorageError == "An unexpected error occurred"

NetworkError == "NetworkError when attempting to fetch resource."

PermissionDeniedError == "Host permission was not granted."

(***************************************************************************)
(* State.                                                                  *)
(***************************************************************************)
VARIABLES
  store,        \* browser.storage.local: key -> value
  perms,        \* the origin patterns the extension holds permission for
  pc,           \* where the message listener is: idle, settings, perm, fetch, text, done
  msg,          \* the message being handled
  yourlsUrl,    \* apiX local: the yourlsUrl setting as read
  base,         \* apiX local: sanitizeBaseUrl(yourlsUrl)
  payload,      \* apiX local: the payload passed to yourlsFetch
  permState,    \* the permission query of this call: none, pending, granted, denied, failed
  permQueries,  \* browser.permissions.contains calls made for this message
  sent,         \* the fetch calls made for this message: <<[method, url, body]>>
  status,       \* res.status of the response, 0 before there is one
  text,         \* the body text read from the response
  outcome,      \* how the API function ended
  reply,        \* what the listener's promise settled to
  toasts,       \* the notifications created for this message
  hpc,          \* where handleAction is: idle, remove, settings, set, done, failed
  info,         \* handleAction argument: the click's linkUrl and selectionText
  tab,          \* handleAction argument: the tab with its url
  urlToShorten, \* handleAction local: the URL getUrlForAction resolved
  prefillKey,   \* handleAction local: the storage key `storage.local.set` was called with
  acts,         \* concurrent handleAction invocations: where each is, its URL and its key
  pops,         \* the popup each invocation opens: where its initialization is, what it shows
  confirm,      \* popup: btnDelete carries the class confirm-delete
  disabled,     \* popup: btnDelete.disabled
  statsInput,   \* popup: statsInput.value
  shortUrlBox,  \* popup: shortUrl.value
  timers,       \* popup: the setTimeout callbacks of btnDelete that have not run yet
  clicks,       \* popup: what each click on btnDelete did: "none", "arm" or "send"
  deletes,      \* popup: the shortUrl of every DELETE_SHORTURL message sent
  awaiting      \* popup: the DELETE_SHORTURL messages whose reply is awaited

vars ==
  <<store, perms, pc, msg, yourlsUrl, base, payload, permState, permQueries, sent,
    status, text, outcome, reply, toasts, hpc, info, tab, urlToShorten, prefillKey,
    acts, pops, confirm, disabled, statsInput, shortUrlBox, timers, clicks, deletes,
    awaiting>>

\* the locals of the message listener and the permissions
routerVars ==
  <<perms, pc, msg, yourlsUrl, base, payload, permState, permQueries, sent, status, text,
    outcome, reply, toasts>>

\* the locals of handleAction
triggerVars == <<hpc, info, tab, urlToShorten, prefillKey>>

\* the popup's delete button
deleteVars ==
  <<confirm, disabled, statsInput, shortUrlBox, timers, clicks, deletes, awaiting>>

\* the invocations of handleAction that may run at the same time
Invocations == {1, 2}

Init ==
  /\ store \in Stores
  /\ perms \in {{}, {"https://go.example/*"}}
  /\ pc = "idle"
  /\ msg = Message("", "", "", "")
  /\ yourlsUrl = ""
  /\ base = ""
  /\ payload = <<>>
  /\ permState = "none"
  /\ permQueries = 0
  /\ sent = <<>>
  /\ status = 0
  /\ text = ""
  /\ outcome = NoOutcome
  /\ reply = [kind |-> "none", env |-> NoEnv]
  /\ toasts = <<>>
  /\ hpc = "idle"
  /\ info = [linkUrl |-> "", selectionText |-> ""]
  /\ tab = [url |-> ""]
  /\ urlToShorten = ""
  /\ prefillKey = ""
  /\ acts = [i \in Invocations |-> [pc |-> "idle", url |-> "", key |-> ""]]
  /\ pops = [i \in Invocations |->
               [pc |-> "closed", tab |-> "", base |-> "", from |-> "", url |-> "",
                isShort |-> FALSE]]
  /\ confirm = FALSE
  /\ disabled = FALSE
  /\ statsInput = ""
  /\ shortUrlBox = ""
  /\ timers = 0
  /\ clicks = <<>>
  /\ deletes = <<>>
  /\ awaiting = 0

(***************************************************************************)
(* helpers.js: getSettings, toFormData.                                    *)
(***************************************************************************)
\* browser.storage.local.get({key: default})[key]
StorageGet(st, key, default) == IF key \in DOMAIN st THEN st[key] ELSE default

getSettings(st) ==
  [yourlsUrl    |-> ToStr(StorageGet(st, "yourlsUrl", JStr(""))),
   apiSignature |-> ToStr(StorageGet(st, "apiSignature", JStr(""))),
   autoCopy     |-> StorageGet(st, "autoCopy", JBool(TRUE)) # JBool(FALSE)]

\* the entries of the URLSearchParams: <<key, String(value)>> for every
\* property whose value is neither undefined nor null
RECURSIVE toFormData(_)
toFormData(obj) ==
  IF obj = <<>> THEN <<>>
  ELSE (IF Nullish(obj[1][2]) THEN <<>> ELSE << <<obj[1][1], ToStr(obj[1][2])>> >>)
         \o toFormData(Tail(obj))

(***************************************************************************)
(* background.js: the API functions up to their call of yourlsFetch.  A    *)
(* plan is either the call to make (go) or the way the function ends.      *)
(***************************************************************************)
Call(b, pl) == [go |-> TRUE, base |-> b, payload |-> pl, outcome |-> NoOutcome]

End(b, o) == [go |-> FALSE, base |-> b, payload |-> <<>>, outcome |-> o]

ApiPayload(action, signature, extra) ==
  << <<"action", JStr(action)>>, <<"format", JStr("json")>>, <<"signature", JStr(signature)>> >>
    \o extra

apiStatsPlan(settings, shortOrKeyword) ==
  Call(sanitizeBaseUrl(settings.yourlsUrl),
       ApiPayload("url-stats", settings.apiSignature,
                  << <<"shorturl",
                       JStr(extractKeyword(sanitizeBaseUrl(settings.yourlsUrl), shortOrKeyword))>> >>))

apiShortenPlan(settings, longUrl, keyword, title) ==
  IF sanitizeBaseUrl(settings.yourlsUrl) = "" \/ settings.apiSignature = ""
  THEN End(sanitizeBaseUrl(settings.yourlsUrl), Thrown(getMessage("errorNoSettings")))
  ELSE Call(sanitizeBaseUrl(settings.yourlsUrl),
            ApiPayload("shorturl", settings.apiSignature,
                       << <<"url", JStr(longUrl)>> >>
                         \o (IF keyword # "" THEN << <<"keyword", JStr(keyword)>> >> ELSE <<>>)
                         \o (IF title # "" THEN << <<"title", JStr(title)>> >> ELSE <<>>)))

\* apiDeletePlan sending the request whatever the keyword
apiDeletePlanAnyKeyword(settings, shortOrKeyword) ==
  Call(sanitizeBaseUrl(settings.yourlsUrl),
       ApiPayload("delete", settings.apiSignature,
                  << <<"shorturl",
                       JStr(extractKeyword(sanitizeBaseUrl(settings.yourlsUrl),
                                           shortOrKeyword))>> >>))

apiDeletePlan(settings, shortOrKeyword) ==
  IF extractKeyword(sanitizeBaseUrl(settings.yourlsUrl), shortOrKeyword) = ""
  THEN End(sanitizeBaseUrl(settings.yourlsUrl),
           Thrown(getMessage("errorEnterKeywordToDelete")))
  ELSE Call(sanitizeBaseUrl(settings.yourlsUrl),
            ApiPayload("delete", settings.apiSignature,
                       << <<"shorturl",
                            JStr(extractKeyword(sanitizeBaseUrl(settings.yourlsUrl),
                                                shortOrKeyword))>> >>))

\* apiCheckPlan testing the base URL only, not the token
apiCheckPlanBaseOnly(settings) ==
  IF sanitizeBaseUrl(settings.yourlsUrl) = ""
  THEN End(sanitizeBaseUrl(settings.yourlsUrl),
           Returned(FailEnv(getMessage("errorNoSettings")), ""))
  ELSE Call(sanitizeBaseUrl(settings.yourlsUrl),
            ApiPayload("stats", settings.apiSignature, <<>>))

apiCheckPlan(settings) ==
  IF sanitizeBaseUrl(settings.yourlsUrl) = "" \/ settings.apiSignature = ""
  THEN End(sanitizeBaseUrl(settings.yourlsUrl),
           Returned(FailEnv(getMessage("errorNoSettings")), ""))
  ELSE Call(sanitizeBaseUrl(settings.yourlsUrl),
            ApiPayload("stats", settings.apiSignature, <<>>))

\* the switch of the message listener
KnownTypes == {"CHECK_CONNECTION", "SHORTEN_URL", "GET_STATS", "DELETE_SHORTURL", "GET_DB_STATS"}

ApiPlan(m, settings) ==
  CASE m.type = "CHECK_CONNECTION" -> apiCheckPlan(settings)
    [] m.type = "SHORTEN_URL"      -> apiShortenPlan(settings, m.longUrl, m.keyword, m.title)
    [] m.type = "GET_STATS"        -> apiStatsPlan(settings, m.shortUrl)
    [] m.type = "DELETE_SHORTURL"  -> apiDeletePlan(settings, m.shortUrl)
    [] OTHER                       ->
         Call(sanitizeBaseUrl(settings.yourlsUrl),
              ApiPayload("stats", settings.apiSignature, <<>>))

ApiResult(m, st, txt, b) ==
  CASE m.type = "CHECK_CONNECTION" -> apiCheckResult(st, txt)
    [] m.type = "SHORTEN_URL"      -> apiShortenResult(st, txt, b)
    [] m.type = "GET_STATS"        -> apiStatsResult(st, txt)
    [] m.type = "DELETE_SHORTURL"  -> apiDeleteResult(st, txt)
    [] OTHER                       -> apiDbStatsResult(st, txt)

\* String(e?.message || e) for an Error e with the given message
ErrorString(message) == IF message # "" THEN message ELSE "Error"

\* an exception raised by `await yourlsFetch(...)`: apiCheck catches it,
\* the other API functions let it through
FetchThrew(m, message) ==
  IF m.type = "CHECK_CONNECTION" THEN [k |-> "env", env |-> FailEnv(ErrorString(message)), val |-> JUndefined,
                                           err |-> message, toast |-> "", raised |-> TRUE]
  ELSE Thrown(message)

\* ListenerResult without the catch clause: an exception rejects the promise
ListenerResultNoCatch(o) ==
  CASE o.k = "env"   -> [kind |-> "resolved", env |-> o.env]
    [] o.k = "value" -> [kind |-> "resolved", env |-> DataEnv(o.val)]
    [] OTHER         -> [kind |-> "rejected", env |-> NoEnv]

\* the try/catch of the message listener: what its promise settles to
ListenerResult(o) ==
  CASE o.k = "env"   -> [kind |-> "resolved", env |-> o.env]
    [] o.k = "value" -> [kind |-> "resolved", env |-> DataEnv(o.val)]
    [] OTHER         ->
         [kind |-> "resolved",
          env  |-> IF TestKeywordExists(ErrorString(o.err))
                   THEN FailEnv(getMessage("errorKeywordExists"))
                   ELSE FailEnv(ErrorString(o.err))]

\* Endpoint resolving the API script against the host root instead of baseUrl
EndpointAtRoot(baseUrl) == "/yourls-api.php"

\* `${baseUrl}/yourls-api.php`
Endpoint(baseUrl) == baseUrl \o "/yourls-api.php"

\* PermissionHeld with the test dropped: every origin passes
PermissionHeldUnchecked(granted, baseUrl) == TRUE

\* yourlsFetch: `await browser.permissions.contains({origins: [`${origin}/*`]})`
\* for origin = new URL(baseUrl).origin
PermissionHeld(granted, baseUrl) ==
  (ParseURL(baseUrl).origin \o "/*") \in granted \/ "<all_urls>" \in granted

(***************************************************************************)
(* Actions: one per step of the message listener between two awaits.       *)
(***************************************************************************)
\* the API function ends with outcome o and the listener settles
Finish(o) ==
  /\ outcome' = o
  /\ reply' = ListenerResult(o)
  /\ toasts' = IF o.toast # "" THEN Append(toasts, o.toast) ELSE toasts
  /\ pc' = "done"

\* runtime.onMessage fires; the listener dispatches on msg.type
Receive(m) ==
  /\ pc = "idle"
  /\ msg' = m
  /\ IF m.type \in KnownTypes
     THEN /\ pc' = "settings"
          /\ UNCHANGED <<outcome, reply, toasts>>
     ELSE Finish(Returned(FailEnv("Unknown message type"), ""))
  /\ UNCHANGED <<store, perms, yourlsUrl, base, payload, permState, permQueries, sent,
                 status, text>>
  /\ UNCHANGED triggerVars
  /\ UNCHANGED <<acts, pops, deleteVars>>

\* the API function follows its plan: it ends, or it enters yourlsFetch,
\* where `new URL(baseUrl)` throws or permissions.contains is called
Follow(plan) ==
  /\ base' = plan.base
  /\ payload' = plan.payload
  /\ IF ~plan.go
     THEN Finish(plan.outcome) /\ UNCHANGED <<permState, permQueries>>
     ELSE IF ~ParseURL(plan.base).ok
     THEN Finish(FetchThrew(msg, "URL constructor: " \o plan.base \o " is not a valid URL."))
          /\ UNCHANGED <<permState, permQueries>>
     ELSE /\ permState' = "pending"
          /\ permQueries' = permQueries + 1
          /\ pc' = "perm"
          /\ UNCHANGED <<outcome, reply, toasts>>

\* `await H.getSettings()` resolves; the function runs up to
\* `await browser.permissions.contains(...)` in yourlsFetch
SettingsResolve ==
  /\ pc = "settings"
  /\ yourlsUrl' = getSettings(store).yourlsUrl
  /\ Follow(ApiPlan(msg, getSettings(store)))
  /\ UNCHANGED <<store, perms, msg, sent, status, text>>
  /\ UNCHANGED triggerVars
  /\ UNCHANGED <<acts, pops, deleteVars>>

\* `await H.getSettings()` rejects: the storage read failed
SettingsReject ==
  /\ pc = "settings"
  /\ Finish(Thrown(StorageError))
  /\ UNCHANGED <<store, perms, msg, yourlsUrl, base, payload, permState, permQueries, sent,
                 status, text>>
  /\ UNCHANGED triggerVars
  /\ UNCHANGED <<acts, pops, deleteVars>>

\* permissions.contains resolves; when it is true the request is sent
PermissionResolve ==
  /\ pc = "perm"
  /\ IF PermissionHeld(perms, base)
     THEN /\ permState' = "granted"
          /\ sent' = Append(sent, [method |-> "POST", url |-> Endpoint(base),
                                   body |-> toFormData(payload)])
          /\ pc' = "fetch"
          /\ UNCHANGED <<outcome, reply, toasts>>
     ELSE /\ permState' = "denied"
          /\ Finish(FetchThrew(msg, PermissionDeniedError))
          /\ UNCHANGED sent
  /\ UNCHANGED <<store, perms, msg, yourlsUrl, base, payload, permQueries, status, text>>
  /\ UNCHANGED triggerVars
  /\ UNCHANGED <<acts, pops, deleteVars>>

\* permissions.contains rejects
PermissionReject ==
  /\ pc = "perm"
  /\ permState' = "failed"
  /\ Finish(FetchThrew(msg, "An unexpected error occurred in permissions.contains"))
  /\ UNCHANGED <<store, perms, msg, yourlsUrl, base, payload, permQueries, sent, status, text>>
  /\ UNCHANGED triggerVars
  /\ UNCHANGED <<acts, pops, deleteVars>>

\* fetch resolves with a response of status st; res.text() is awaited
FetchResolve(st) ==
  /\ pc = "fetch"
  /\ status' = st
  /\ pc' = "text"
  /\ UNCHANGED <<store, perms, msg, yourlsUrl, base, payload, permState, permQueries, sent,
                 text, outcome, reply, toasts>>
  /\ UNCHANGED triggerVars
  /\ UNCHANGED <<acts, pops, deleteVars>>

\* FetchReject trying the request a second time before it gives up
FetchRejectRetry ==
  /\ pc = "fetch"
  /\ IF Len(sent) < 2
     THEN /\ sent' = Append(sent, sent[1])
          /\ UNCHANGED <<pc, outcome, reply, toasts>>
     ELSE Finish(FetchThrew(msg, NetworkError)) /\ UNCHANGED sent
  /\ UNCHANGED <<store, perms, msg, yourlsUrl, base, payload, permState, permQueries,
                 status, text>>
  /\ UNCHANGED triggerVars
  /\ UNCHANGED <<acts, pops, deleteVars>>

\* fetch rejects: the server could not be reached
FetchReject ==
  /\ pc = "fetch"
  /\ Finish(FetchThrew(msg, NetworkError))
  /\ UNCHANGED <<store, perms, msg, yourlsUrl, base, payload, permState, permQueries, sent,
                 status, text>>
  /\ UNCHANGED triggerVars
  /\ UNCHANGED <<acts, pops, deleteVars>>

\* res.text() resolves with body; the API function normalizes the response
TextResolve(body) ==
  /\ pc = "text"
  /\ text' = body
  /\ Finish(ApiResult(msg, status, body, base))
  /\ UNCHANGED <<store, perms, msg, yourlsUrl, base, payload, permState, permQueries, sent,
                 status>>
  /\ UNCHANGED triggerVars
  /\ UNCHANGED <<acts, pops, deleteVars>>

\* res.text() rejects: `.catch(() => "")`
TextReject ==
  /\ pc = "text"
  /\ text' = ""
  /\ Finish(ApiResult(msg, status, "", base))
  /\ UNCHANGED <<store, perms, msg, yourlsUrl, base, payload, permState, permQueries, sent,
                 status>>
  /\ UNCHANGED triggerVars
  /\ UNCHANGED <<acts, pops, deleteVars>>

\* the sender has the reply; the listener's locals are gone
Settle ==
  /\ pc = "done"
  /\ pc' = "idle"
  /\ msg' = Message("", "", "", "")
  /\ yourlsUrl' = ""
  /\ base' = ""
  /\ payload' = <<>>
  /\ permState' = "none"
  /\ permQueries' = 0
  /\ sent' = <<>>
  /\ status' = 0
  /\ text' = ""
  /\ outcome' = NoOutcome
  /\ reply' = [kind |-> "none", env |-> NoEnv]
  /\ toasts' = <<>>
  /\ UNCHANGED <<store, perms>>
  /\ UNCHANGED triggerVars
  /\ UNCHANGED <<acts, pops, deleteVars>>

Next ==
  \/ \E m \in Messages : Receive(m)
  \/ SettingsResolve
  \/ SettingsReject
  \/ PermissionResolve
  \/ PermissionReject
  \/ \E st \in {200, 400, 404, 500} : FetchResolve(st)
  \/ FetchReject
  \/ \E body \in Bodies : TextResolve(body)
  \/ TextReject
  \/ Settle

Spec == Init /\ [][Next]_vars

(***************************************************************************)
(* background.js: handleAction, the handler of a click on the toolbar      *)
(* button or on a context-menu item; one action per step between awaits.   *)
(***************************************************************************)
\* the arguments of a click: a link with a selection and a page around it,
\* or no link on every selection and page
TriggerContexts ==
  { [linkUrl |-> l, selectionText |-> "see https://sel.example/a?b=1 and more",
     url |-> "https://page.example/"] :
       l \in {"https://www.google.com/url?url=https://example.com/page",
         "https://www.google.com/url?sa=t&url=https%3A%2F%2Fexample.com%2Fpage%3Fa%3D1&usg=x",
         "https://www.google.com/url?url=",
         "https://www.google.com/url?url=https%3A%2F%2Fwww.youtube.com%2Fredirect%3Fq%3Dhttps%3A%2F%2Fexample.com",
         "https://www.google.com/url?q=https://example.com",
         "https://www.bing.com/ck/a?u=a1aHR0cHM6Ly9leGFtcGxlLmNvbQ",
         "https://www.bing.com/ck/a?u=a1",
         "https://duckduckgo.com/l/?uddg=https%3A%2F%2Fexample.com%2F&rut=abc",
         "https://www.youtube.com/redirect?event=x&q=https%3A%2F%2Fexample.com",
         "https://example.com/foo",
         "https://go.example/abc123",
         "javascript:void(0)",
         "http://"} }
  \cup { [linkUrl |-> "", selectionText |-> sel, url |-> u] :
           sel \in {"", "no address here", "HTTPS://UP.example http:// xhttp://in.example/x y",
                    "see https://sel.example/a?b=1 and more"},
           u \in {"", "https://page.example/", "https://go.example/abc123", "about:blank",
                  "moz-extension://0a1b/popup.html", "file:///home/u/a.html"} }

\* a click: openPopup is called, getUrlForAction resolves the URL and
\* storage.local.remove is called
Trigger(c) ==
  /\ hpc = "idle"
  /\ info' = [linkUrl |-> c.linkUrl, selectionText |-> c.selectionText]
  /\ tab' = [url |-> c.url]
  /\ urlToShorten' =
       getUrlForAction([linkUrl |-> c.linkUrl, selectionText |-> c.selectionText],
                       [url |-> c.url])
  /\ hpc' = "remove"
  /\ UNCHANGED <<store, prefillKey>>
  /\ UNCHANGED routerVars
  /\ UNCHANGED <<acts, pops, deleteVars>>

\* storage.local.remove resolves: both prefill keys are gone; with a URL
\* the settings are read next
RemovePrefill ==
  /\ hpc = "remove"
  /\ store' = [k \in DOMAIN store \ {"yourls_prefill_long", "yourls_prefill_short"} |-> store[k]]
  /\ hpc' = IF urlToShorten # "" THEN "settings" ELSE "done"
  /\ UNCHANGED <<info, tab, urlToShorten, prefillKey>>
  /\ UNCHANGED routerVars
  /\ UNCHANGED <<acts, pops, deleteVars>>

\* the key handleAction files url under; b is the sanitized base URL
ChoosePrefill(b, url) ==
  IF b # "" /\ StartsWith(url, b) THEN "yourls_prefill_short" ELSE "yourls_prefill_long"

\* H.getSettings() resolves: storage.local.set is called with one prefill key
ReadSettings ==
  /\ hpc = "settings"
  /\ prefillKey' = ChoosePrefill(sanitizeBaseUrl(getSettings(store).yourlsUrl), urlToShorten)
  /\ hpc' = "set"
  /\ UNCHANGED <<store, info, tab, urlToShorten>>
  /\ UNCHANGED routerVars
  /\ UNCHANGED <<acts, pops, deleteVars>>

\* SetPrefill keeping the URL under a key that is never removed
SetPrefillLastUrl ==
  /\ hpc = "set"
  /\ store' = [k \in DOMAIN store \cup {"yourls_last_url"} |->
                 IF k = "yourls_last_url" THEN JStr(urlToShorten) ELSE store[k]]
  /\ hpc' = "done"
  /\ UNCHANGED <<info, tab, urlToShorten, prefillKey>>
  /\ UNCHANGED routerVars
  /\ UNCHANGED <<acts, pops, deleteVars>>

\* storage.local.set resolves: the URL is in the store
SetPrefill ==
  /\ hpc = "set"
  /\ store' = [k \in DOMAIN store \cup {prefillKey} |->
                 IF k = prefillKey THEN JStr(urlToShorten) ELSE store[k]]
  /\ hpc' = "done"
  /\ UNCHANGED <<info, tab, urlToShorten, prefillKey>>
  /\ UNCHANGED routerVars
  /\ UNCHANGED <<acts, pops, deleteVars>>

\* a storage call rejects: handleAction ends there
StorageReject ==
  /\ hpc \in {"remove", "settings", "set"}
  /\ hpc' = "failed"
  /\ UNCHANGED <<store, info, tab, urlToShorten, prefillKey>>
  /\ UNCHANGED routerVars
  /\ UNCHANGED <<acts, pops, deleteVars>>

\* handleAction has returned; its locals are gone
ActionDone ==
  /\ hpc \in {"done", "failed"}
  /\ hpc' = "idle"
  /\ info' = [linkUrl |-> "", selectionText |-> ""]
  /\ tab' = [url |-> ""]
  /\ urlToShorten' = ""
  /\ prefillKey' = ""
  /\ UNCHANGED store
  /\ UNCHANGED routerVars
  /\ UNCHANGED <<acts, pops, deleteVars>>

\* the state after installation or configuration, no host permission yet
TriggerInit ==
  /\ Init
  /\ perms = {}
  /\ store = <<>> \/ store["apiSignature"] = JStr("s3cr3t")

TriggerNext ==
  \/ \E c \in TriggerContexts : Trigger(c)
  \/ RemovePrefill
  \/ ReadSettings
  \/ SetPrefill
  \/ StorageReject
  \/ ActionDone

SpecTrigger == TriggerInit /\ [][TriggerNext]_vars

(***************************************************************************)
(* background.js and popup.js: the hand-over of the URL of a click to the  *)
(* popup through browser.storage.local.  Invocations of handleAction run   *)
(* concurrently with one another and with the initialization of the popup  *)
(* each of them opens; every storage call resolves, one step per await.    *)
(***************************************************************************)
\* the clicks of the hand-over: a link to a page, a link to a short URL of
\* the service, and the toolbar button on a page without a URL to shorten
HandoffContexts ==
  { c \in TriggerContexts :
      \/ c.linkUrl \in {"https://example.com/foo", "https://go.example/abc123"}
      \/ c.linkUrl = "" /\ c.selectionText = "" /\ c.url \in {"about:blank", "https://page.example/"} }

\* click number i: handleAction calls openPopup, resolves the URL and calls
\* storage.local.remove; the popup starts to load
Click(i, c) ==
  /\ acts[i].pc = "idle"
  /\ \A j \in Invocations : j < i => acts[j].pc # "idle"
  /\ acts' = [acts EXCEPT ![i] =
                [pc  |-> "remove",
                 url |-> getUrlForAction([linkUrl |-> c.linkUrl,
                                          selectionText |-> c.selectionText],
                                         [url |-> c.url]),
                 key |-> ""]]
  /\ pops' = [pops EXCEPT ![i].pc = "loading", ![i].tab = c.url]
  /\ UNCHANGED <<store, deleteVars>>
  /\ UNCHANGED <<routerVars, triggerVars>>

\* handleAction i: storage.local.remove resolves
ActRemove(i) ==
  /\ acts[i].pc = "remove"
  /\ store' = [k \in DOMAIN store \ {"yourls_prefill_long", "yourls_prefill_short"} |-> store[k]]
  /\ acts' = [acts EXCEPT ![i].pc = IF acts[i].url # "" THEN "settings" ELSE "done"]
  /\ UNCHANGED <<pops, deleteVars>>
  /\ UNCHANGED <<routerVars, triggerVars>>

\* handleAction i: H.getSettings() resolves, storage.local.set is called
ActSettings(i) ==
  /\ acts[i].pc = "settings"
  /\ acts' = [acts EXCEPT ![i].pc = "set",
                          ![i].key = ChoosePrefill(sanitizeBaseUrl(getSettings(store).yourlsUrl),
                                                   acts[i].url)]
  /\ UNCHANGED <<store, pops, deleteVars>>
  /\ UNCHANGED <<routerVars, triggerVars>>

\* handleAction i: storage.local.set resolves
ActSet(i) ==
  /\ acts[i].pc = "set"
  /\ store' = [k \in DOMAIN store \cup {acts[i].key} |->
                 IF k = acts[i].key THEN JStr(acts[i].url) ELSE store[k]]
  /\ acts' = [acts EXCEPT ![i].pc = "done"]
  /\ UNCHANGED <<pops, deleteVars>>
  /\ UNCHANGED <<routerVars, triggerVars>>

\* popup i: DOMContentLoaded, H.getSettings() resolves; without settings the
\* setup message is shown and the handler returns
PopupSettings(i) ==
  /\ pops[i].pc = "loading"
  /\ pops' = [pops EXCEPT
                ![i].pc = IF getSettings(store).yourlsUrl = "" \/ getSettings(store).apiSignature = ""
                          THEN "setup" ELSE "prefill",
                ![i].base = sanitizeBaseUrl(getSettings(store).yourlsUrl)]
  /\ UNCHANGED <<store, acts, deleteVars>>
  /\ UNCHANGED <<routerVars, triggerVars>>

\* getInitialUrl: storageData.yourls_prefill_long || storageData.yourls_prefill_short
Prefilled(st) ==
  OrElse(StorageGet(st, "yourls_prefill_long", JUndefined),
         StorageGet(st, "yourls_prefill_short", JUndefined))

\* getInitialUrl: isShort for a URL; short says that yourls_prefill_short
\* was set
IsShortUrl(short, b, url) ==
  short \/ (b # "" /\ StartsWith(url, b) /\ Len(url) > Len(b) + 1)

\* popup i, getInitialUrl: storage.local.get resolves; with a URL the popup
\* shows it and calls storage.local.remove, without one it calls tabs.query
PopupPrefill(i) ==
  /\ pops[i].pc = "prefill"
  /\ pops' = [pops EXCEPT ![i] =
                IF Truthy(Prefilled(store))
                THEN [pc |-> "remove", tab |-> pops[i].tab, base |-> pops[i].base,
                      from |-> "storage", url |-> ToStr(Prefilled(store)),
                      isShort |-> IsShortUrl(Truthy(StorageGet(store, "yourls_prefill_short",
                                                               JUndefined)),
                                             pops[i].base, ToStr(Prefilled(store)))]
                ELSE [pc |-> "tab", tab |-> pops[i].tab, base |-> pops[i].base,
                      from |-> "", url |-> "", isShort |-> FALSE]]
  /\ UNCHANGED <<store, acts, deleteVars>>
  /\ UNCHANGED <<routerVars, triggerVars>>

\* popup i, getInitialUrl: tabs.query resolves; the popup shows the tab's
\* URL or the dashboard and calls storage.local.remove
PopupTab(i) ==
  /\ pops[i].pc = "tab"
  /\ pops' = [pops EXCEPT ![i] =
                IF pops[i].tab # "" /\ ~StartsWith(pops[i].tab, "about:")
                THEN [pc |-> "remove", tab |-> pops[i].tab, base |-> pops[i].base,
                      from |-> "tab", url |-> pops[i].tab,
                      isShort |-> IsShortUrl(FALSE, pops[i].base, pops[i].tab)]
                ELSE [pc |-> "remove", tab |-> pops[i].tab, base |-> pops[i].base,
                      from |-> "", url |-> "", isShort |-> FALSE]]
  /\ UNCHANGED <<store, acts, deleteVars>>
  /\ UNCHANGED <<routerVars, triggerVars>>

\* popup i: storage.local.remove resolves, init() runs
PopupRemove(i) ==
  /\ pops[i].pc = "remove"
  /\ store' = [k \in DOMAIN store \ {"yourls_prefill_long", "yourls_prefill_short"} |-> store[k]]
  /\ pops' = [pops EXCEPT ![i].pc = "ready"]
  /\ UNCHANGED <<acts, deleteVars>>
  /\ UNCHANGED <<routerVars, triggerVars>>

HandoffNext ==
  \/ \E i \in Invocations : \E c \in HandoffContexts : Click(i, c)
  \/ \E i \in Invocations : ActRemove(i)
  \/ \E i \in Invocations : ActSettings(i)
  \/ \E i \in Invocations : ActSet(i)
  \/ \E i \in Invocations : PopupSettings(i)
  \/ \E i \in Invocations : PopupPrefill(i)
  \/ \E i \in Invocations : PopupTab(i)
  \/ \E i \in Invocations : PopupRemove(i)

SpecHandoff == TriggerInit /\ [][HandoffNext]_vars

(***************************************************************************)
(* popup.js: the delete button.  popup.html is not among the sources; the  *)
(* button starts enabled, which allows every click the markup may allow.   *)
(***************************************************************************)
\* the clicks on btnDelete that are followed
MaxClicks == 4

\* ClickDelete sending the request at the first click
ClickDeleteAtOnce ==
  /\ ~disabled
  /\ Len(clicks) < MaxClicks
  /\ IF Trim(IF statsInput # "" THEN statsInput ELSE shortUrlBox) = ""
     THEN /\ clicks' = Append(clicks, "none")
          /\ UNCHANGED <<confirm, timers, deletes, awaiting>>
     ELSE /\ confirm' = FALSE
          /\ deletes' = Append(deletes, Trim(IF statsInput # "" THEN statsInput ELSE shortUrlBox))
          /\ awaiting' = awaiting + 1
          /\ clicks' = Append(clicks, "send")
          /\ UNCHANGED timers
  /\ UNCHANGED <<disabled, statsInput, shortUrlBox, store, acts, pops>>
  /\ UNCHANGED <<routerVars, triggerVars>>

\* a click on btnDelete, up to the handler's return or its await: nothing
\* to delete, or the confirmation is armed and the timer set, or the
\* confirmation is taken back and DELETE_SHORTURL is sent
ClickDelete ==
  /\ ~disabled
  /\ Len(clicks) < MaxClicks
  /\ IF Trim(IF statsInput # "" THEN statsInput ELSE shortUrlBox) = ""
     THEN /\ clicks' = Append(clicks, "none")
          /\ UNCHANGED <<confirm, timers, deletes, awaiting>>
     ELSE IF ~confirm
     THEN /\ confirm' = TRUE
          /\ timers' = timers + 1
          /\ clicks' = Append(clicks, "arm")
          /\ UNCHANGED <<deletes, awaiting>>
     ELSE /\ confirm' = FALSE
          /\ deletes' = Append(deletes, Trim(IF statsInput # "" THEN statsInput ELSE shortUrlBox))
          /\ awaiting' = awaiting + 1
          /\ clicks' = Append(clicks, "send")
          /\ UNCHANGED timers
  /\ UNCHANGED <<disabled, statsInput, shortUrlBox, store, acts, pops>>
  /\ UNCHANGED <<routerVars, triggerVars>>

\* a setTimeout callback of btnDelete runs, 4000 ms after its click
TimerFire ==
  /\ timers > 0
  /\ timers' = timers - 1
  /\ confirm' = FALSE
  /\ UNCHANGED <<disabled, statsInput, shortUrlBox, clicks, deletes, awaiting, store, acts, pops>>
  /\ UNCHANGED <<routerVars, triggerVars>>

\* the reply to a DELETE_SHORTURL message arrives: after a deletion the
\* boxes are emptied and the button is disabled
DeleteReply(ok) ==
  /\ awaiting > 0
  /\ awaiting' = awaiting - 1
  /\ IF ok
     THEN statsInput' = "" /\ shortUrlBox' = "" /\ disabled' = TRUE
     ELSE UNCHANGED <<statsInput, shortUrlBox, disabled>>
  /\ UNCHANGED <<confirm, timers, clicks, deletes, store, acts, pops>>
  /\ UNCHANGED <<routerVars, triggerVars>>

\* a short URL is shown, by handleExistingShortUrl or after SHORTEN_URL:
\* both boxes hold it and the button is enabled unless it is empty
ShowShortUrl(v) ==
  /\ shortUrlBox' = v
  /\ statsInput' = v
  /\ disabled' = (v = "")
  /\ UNCHANGED <<confirm, timers, clicks, deletes, awaiting, store, acts, pops>>
  /\ UNCHANGED <<routerVars, triggerVars>>

\* the user edits the statsInput box
TypeStats(v) ==
  /\ statsInput' = v
  /\ UNCHANGED <<shortUrlBox, disabled, confirm, timers, clicks, deletes, awaiting, store, acts,
                 pops>>
  /\ UNCHANGED <<routerVars, triggerVars>>

\* the popup of an add-on that is not configured yet
DeleteInit == Init /\ store = <<>> /\ perms = {}

DeleteNext ==
  \/ ClickDelete
  \/ TimerFire
  \/ \E ok \in BOOLEAN : DeleteReply(ok)
  \/ \E v \in {"", "https://go.example/abc123"} : ShowShortUrl(v)
  \/ \E v \in {"", "  ", "abc123"} : TypeStats(v)

SpecDelete == DeleteInit /\ [][DeleteNext]_vars

(***************************************************************************)
(* Properties.                                                             *)
(***************************************************************************)
\* the settings as the API functions read them from the store
StoredSettings == getSettings(store)

\* base URL or API token missing
IncompleteSettings ==
  sanitizeBaseUrl(StoredSettings.yourlsUrl) = "" \/ StoredSettings.apiSignature = ""

\* the API function of the message has read the settings and has ended
EndedAfterSettings == pc = "done" /\ msg.type \in KnownTypes /\ outcome # Thrown(StorageError)

\* the API function of the message got a response and normalized it
Normalized == pc = "done" /\ status # 0

\* the parsed body of the response
ResponseJson == parseMaybeJson(text)

\* C1: the message listener never rejects: for every message it resolves
\* to an envelope, and for an unknown type or after any exception raised on
\* the way the envelope is exactly {ok: false, reason} with a reason text.
C1_ListenerNeverThrows ==
  pc = "done" =>
    /\ reply.kind = "resolved"
    /\ "ok" \in reply.env.fields
    /\ (msg.type \notin KnownTypes \/ outcome.raised) =>
         /\ ~reply.env.ok
         /\ reply.env.fields = {"ok", "reason"}
         /\ reply.env.reason # ""

\* C1 witness: a network failure inside GET_STATS came back as an envelope
C1_Witness ==
  /\ pc = "done"
  /\ msg.type = "GET_STATS"
  /\ outcome = Thrown(NetworkError)
  /\ reply = [kind |-> "resolved", env |-> FailEnv(NetworkError)]

\* the extension holds a permission that covers the origin of url
HoldsPermissionFor(url) ==
  \E p \in perms : p = "<all_urls>" \/ p = ParseURL(url).origin \o "/*"

\* C2: a network request is issued only after the permission query of the
\* call has answered that the permission is held; when it is not held the
\* call fails with the PermissionDenied error and no request is issued.
C2_PermissionBeforeNetwork ==
  /\ sent # <<>> => (permState = "granted" /\ permQueries = 1 /\ HoldsPermissionFor(base))
  /\ (permState \in {"pending", "granted", "denied"} /\ ~HoldsPermissionFor(base)) =>
       /\ sent = <<>>
       /\ permState # "granted"
       /\ pc = "done" => (outcome.raised /\ outcome.err = PermissionDeniedError
                            /\ reply.env = FailEnv(PermissionDeniedError))

\* C2 witness: a Shorten call ended on a denied permission
C2_Witness ==
  /\ pc = "done"
  /\ msg.type = "SHORTEN_URL"
  /\ permState = "denied"
  /\ permQueries = 1
  /\ sent = <<>>

\* the origins of the URLs a message carries
MessageOrigins ==
  { ParseURL(u).origin : u \in { v \in {msg.longUrl, msg.shortUrl} : ParseURL(v).ok } }

\* the origin of the configured service
ServiceOrigin == ParseURL(sanitizeBaseUrl(StoredSettings.yourlsUrl)).origin

\* C3: every network request is a POST to sanitizeBaseUrl(stored service
\* URL) + "/yourls-api.php"; its origin is the origin of the configured
\* service, never the origin of a URL the message carries.
C3_RequestsGoToService ==
  \A i \in 1..Len(sent) :
    /\ sent[i].method = "POST"
    /\ sent[i].url = sanitizeBaseUrl(StoredSettings.yourlsUrl) \o "/yourls-api.php"
    /\ ParseURL(sent[i].url).ok
    /\ ParseURL(sent[i].url).origin = ServiceOrigin
    /\ ParseURL(sent[i].url).origin \notin (MessageOrigins \ {ServiceOrigin})

\* C3 witness: Delete of a foreign short URL sent its request to the service
C3_Witness ==
  /\ pc = "fetch"
  /\ msg.type = "DELETE_SHORTURL"
  /\ msg.shortUrl = "https://evil.test/abc123"
  /\ Len(sent) = 1
  /\ sent[1].url = "https://go.example/yourls/yourls-api.php"

\* C4: a Connectivity Check with incomplete settings returns
\* {ok: false, reason} and makes no permission query and no network call.
C4_CheckWithoutSettings ==
  (msg.type = "CHECK_CONNECTION" /\ IncompleteSettings) =>
    /\ permQueries = 0
    /\ sent = <<>>
    /\ EndedAfterSettings =>
         /\ outcome.k = "env"
         /\ outcome.env = FailEnv(getMessage("errorNoSettings"))
         /\ reply.env = outcome.env

\* C4 witness: a check ended with a base URL stored and no token
C4_Witness ==
  /\ msg.type = "CHECK_CONNECTION"
  /\ pc = "done"
  /\ sanitizeBaseUrl(StoredSettings.yourlsUrl) = "https://go.example"
  /\ StoredSettings.apiSignature = ""
  /\ outcome.k = "env"
  /\ ~outcome.env.ok

\* C5: the Connectivity Check never throws to its caller: whatever step
\* fails (settings read, permission query, network call, body read), it
\* returns {ok: false, reason} with the failure's message as the reason.
C5_CheckNeverThrows ==
  (msg.type = "CHECK_CONNECTION" /\ pc = "done") =>
    /\ outcome.k = "env"
    /\ outcome.raised => outcome.env = FailEnv(outcome.err)

\* C6: Shorten, Stats, Delete and db-wide Stats, attempted while the base
\* URL or the token is missing, fail with the NoSettings error and issue no
\* network call.
C6_NoSettingsForEveryOperation ==
  (msg.type \in KnownTypes \ {"CHECK_CONNECTION"} /\ IncompleteSettings) =>
    /\ sent = <<>>
    /\ EndedAfterSettings => outcome = Thrown(getMessage("errorNoSettings"))

\* the short URL the "already exists" case announces: the parenthetical
\* of the message if there is one, else the field-shape extraction
ExistingShortUrl ==
  LET capture == ShortUrlCapture(ToStr(Get(ResponseJson, "message")))
  IN  IF capture # "" THEN JStr(capture) ELSE extractShort(ResponseJson, base)

\* the body is JSON whose message contains "already exists"
BodySaysAlreadyExists ==
  /\ JsonParses(text)
  /\ Get(ResponseJson, "message").t = "string"
  /\ Contains(ToLower(Get(ResponseJson, "message").s), "already exists")

\* C7: whenever the body is JSON whose message contains "already exists"
\* (any case), Shorten returns {ok: true, already: true, shortUrl} whatever
\* the HTTP status, shortUrl being the parenthetical "(short URL: <url>)"
\* of the message if present and else the field-shape extraction.
C7_ShortenAlreadyExists ==
  (msg.type = "SHORTEN_URL" /\ Normalized /\ BodySaysAlreadyExists) =>
    /\ outcome.k = "env"
    /\ outcome.env = ShortenEnv(ExistingShortUrl, TRUE)
    /\ reply.env = outcome.env
    /\ text = "{\"message\":\"short URL already exists (short URL: https://go.example/xyz)\"}"
         => outcome.env.shortUrl = JStr("https://go.example/xyz")

\* C7 witness: the message with the parenthetical, on HTTP status 400
C7_Witness ==
  /\ msg.type = "SHORTEN_URL"
  /\ Normalized
  /\ status = 400
  /\ text = "{\"message\":\"short URL already exists (short URL: https://go.example/xyz)\"}"
  /\ outcome.env.ok
  /\ outcome.env.already

\* the server's answer is an error saying that the keyword already exists
AnswerSaysKeywordExists ==
  IF Truthy(ResponseJson)
  THEN /\ Get(ResponseJson, "status") = JStr("fail")
       /\ TestKeywordExists(ToStr(Get(ResponseJson, "message")))
  ELSE TestKeywordExists(text)

\* C8: when the server answers a Shorten request with an error saying the
\* keyword already exists, the listener returns {ok: false, reason: the
\* fixed KeywordExists message}.
C8_KeywordExistsRewrite ==
  (msg.type = "SHORTEN_URL" /\ Normalized /\ AnswerSaysKeywordExists) =>
    reply.env = FailEnv(getMessage("errorKeywordExists"))

\* C9: when the body's message does not contain "already exists", Shorten
\* returns {ok: true, already: false, shortUrl} exactly when the status is
\* ok, the body parsed as JSON and the field-shape extraction gave a
\* non-empty short URL, which is the shortUrl returned; else it throws.
C9_ShortenNew ==
  (msg.type = "SHORTEN_URL" /\ Normalized /\ ~BodySaysAlreadyExists) =>
    LET short == extractShort(ResponseJson, base)
    IN  IF ResOk(status) /\ JsonParses(text) /\ Truthy(short)
        THEN /\ outcome.k = "env"
             /\ outcome.env = ShortenEnv(short, FALSE)
             /\ reply.env = outcome.env
             /\ text = "{\"keyword\":\"kw1\"}" => short = JStr(base \o "/kw1")
        ELSE /\ outcome.k = "throw"
             /\ ~reply.env.ok

\* C9 witness: HTTP 200 with a shorturl field
C9_Witness ==
  /\ msg.type = "SHORTEN_URL"
  /\ Normalized
  /\ status = 200
  /\ outcome.k = "env"
  /\ outcome.env = ShortenEnv(JStr("https://go.example/zzz"), FALSE)

\* the body tells that the deletion succeeded
BodySaysDeleted ==
  \/ Get(ResponseJson, "status") = JStr("success")
  \/ (Get(ResponseJson, "message").t = "string"
      /\ MatchDotStar(Get(ResponseJson, "message").s, "success", "deleted"))
  \/ Get(ResponseJson, "statusCode") = JNum(200)

\* the body's message field or, if absent, its error field
DeleteDetails ==
  IF Truthy(Get(ResponseJson, "message")) THEN ToStr(Get(ResponseJson, "message"))
  ELSE IF Truthy(Get(ResponseJson, "error")) THEN ToStr(Get(ResponseJson, "error"))
  ELSE ""

\* C10: Delete returns {ok: true} exactly when the status is ok and the
\* body has status "success", a message matching "success...deleted" (any
\* case) or statusCode 200; else it throws a "Delete failed" error whose
\* text carries the HTTP status and the body's message or error field.
C10_DeleteNormalization ==
  (msg.type = "DELETE_SHORTURL" /\ Normalized) =>
    IF ResOk(status) /\ BodySaysDeleted
    THEN outcome.k = "env" /\ outcome.env = DeleteEnv /\ reply.env = DeleteEnv
    ELSE /\ outcome.k = "throw"
         /\ StartsWith(outcome.err, "Delete failed")
         /\ Contains(outcome.err, "HTTP " \o NatToStr(status))
         /\ EndsWith(outcome.err, DeleteDetails)
         /\ ~reply.env.ok

\* C10 witness: HTTP 200 with status "fail" and an error field
C10_Witness ==
  /\ msg.type = "DELETE_SHORTURL"
  /\ Normalized
  /\ status = 200
  /\ text = "{\"status\":\"fail\",\"error\":\"not allowed\"}"
  /\ outcome = Thrown("Delete failed: HTTP 200 - not allowed")

\* C11: single-link stats: HTTP 404 ends in the NotFound error whatever the
\* body is; any other non-ok status ends in an error made of the status
\* and at most the first 100 characters of the body.
C11_StatsErrors ==
  (msg.type = "GET_STATS" /\ Normalized /\ ~ResOk(status)) =>
    /\ outcome.k = "throw"
    /\ ~reply.env.ok
    /\ IF status = 404
       THEN /\ outcome.err = getMessage("popupErrorStatsNotFound")
            /\ reply.env = FailEnv(getMessage("popupErrorStatsNotFound"))
       ELSE /\ StartsWith(outcome.err, "HTTP " \o NatToStr(status))
            /\ outcome.err = "HTTP " \o NatToStr(status)
                               \o (IF text = "" THEN ""
                                   ELSE ": " \o SubSeq(text, 1, Min(100, Len(text))))
            /\ Len(outcome.err) <= Len("HTTP " \o NatToStr(status) \o ": ") + 100

\* C11 witness: status 500 with a body longer than 100 characters, cut
C11_Witness ==
  /\ msg.type = "GET_STATS"
  /\ Normalized
  /\ status = 500
  /\ Len(text) > 100
  /\ outcome.k = "throw"
  /\ Len(outcome.err) = Len("HTTP 500: ") + 100

\* C12: whenever the listener answers GET_STATS with {ok: true, data}, the
\* body was valid JSON and data is its parsed value, never null.
C12_StatsSuccessIsJson ==
  (msg.type = "GET_STATS" /\ pc = "done" /\ reply.env.ok) =>
    /\ JsonParses(text)
    /\ reply.env.data = ResponseJson
    /\ reply.env.data # JNull

\* C18: a request makes at most one permission query and at most one
\* network call, whatever its outcome; a failure is reported in the
\* envelope the listener returns.
C18_NoRetry ==
  /\ Len(sent) <= 1
  /\ permQueries <= 1
  /\ (pc = "done" /\ outcome.raised) => (reply.kind = "resolved" /\ ~reply.env.ok)
  /\ (pc = "done" /\ status # 0) => Len(sent) = 1

\* C18 witness: a network failure reported after a single request
C18_Witness ==
  /\ pc = "done"
  /\ Len(sent) = 1
  /\ outcome.err = NetworkError
  /\ ~reply.env.ok

\* C20: a notification is shown exactly when Shorten or Delete succeeds:
\* one notification for each of them that returns ok: true, none for a
\* failure envelope and none for Stats or Check.
C20_ToastOnSuccess ==
  /\ pc # "done" => toasts = <<>>
  /\ pc = "done" =>
       Len(toasts) = IF msg.type \in {"SHORTEN_URL", "DELETE_SHORTURL"} /\ reply.env.ok
                     THEN 1 ELSE 0

\* C20 witness: a Delete that succeeded and showed its notification
C20_Witness ==
  /\ pc = "done"
  /\ msg.type = "DELETE_SHORTURL"
  /\ reply.env = DeleteEnv
  /\ toasts = <<"toastUrlDeleted">>

\* the API function of the message has read the settings
SettingsRead == pc \in {"perm", "fetch", "text"} \/ EndedAfterSettings

\* the keyword the Keyword Resolver gave for the message's shortUrl: the
\* shorturl field of the payload ("" when Delete ended for want of one)
ResolvedKeyword == IF Len(payload) >= 4 THEN payload[4][2].s ELSE ""

\* the last non-empty segment of a path, "" when it has none
LastNonEmptySegment(path) ==
  LET e == LastNotOf(path, {"/"})
      slashes == { i \in 1..e : CharAt(path, i) = "/" }
  IN  IF e = 0 THEN ""
      ELSE SubSeq(path, (IF slashes = {} THEN 0 ELSE MaxOf(slashes)) + 1, e)

\* s is an absolute URL whose origin is the origin of the base URL b
SameOrigin(s, b) ==
  ParseURL(s).ok /\ ParseURL(b).ok /\ ParseURL(s).origin = ParseURL(b).origin

\* C16 as claimed: the keyword is the last non-empty path segment of s when
\* s is a URL of the base URL's origin, s itself unchanged when s is a URL
\* of another origin or no URL, and "" for the empty input.
C16_KeywordResolver ==
  (msg.type \in {"GET_STATS", "DELETE_SHORTURL"} /\ SettingsRead) =>
    ResolvedKeyword =
      IF msg.shortUrl = "" THEN ""
      ELSE IF SameOrigin(msg.shortUrl, base)
           THEN LastNonEmptySegment(ParseURL(msg.shortUrl).pathname)
      ELSE msg.shortUrl

\* C16 as amended: as claimed, but an s that is a URL of another origin or
\* no URL is returned without its leading and trailing white space.
C16_KeywordResolverTrimmed ==
  (msg.type \in {"GET_STATS", "DELETE_SHORTURL"} /\ SettingsRead) =>
    ResolvedKeyword =
      IF msg.shortUrl = "" THEN ""
      ELSE IF SameOrigin(msg.shortUrl, base)
           THEN LastNonEmptySegment(ParseURL(msg.shortUrl).pathname)
      ELSE Trim(msg.shortUrl)

\* C16 witness: stats asked for a short URL of the service, below its path
C16_Witness ==
  /\ msg.type = "GET_STATS"
  /\ pc = "fetch"
  /\ base = "https://go.example/yourls"
  /\ msg.shortUrl = "https://go.example/yourls/abc123/"
  /\ ResolvedKeyword = "abc123"

\* what sanitizeBaseUrl parses: the input without white space and without
\* trailing slashes
SanitizeInput(u) == StripTrailingSlashes(Without(Trim(u), SpaceChars))

\* C17: sanitizeBaseUrl is idempotent, gives "" for every input that does
\* not parse as a URL, and gives no result that ends in a slash.
C17_SanitizeIdempotent ==
  SettingsRead =>
    /\ base = sanitizeBaseUrl(yourlsUrl)
    /\ sanitizeBaseUrl(base) = base
    /\ ~ParseURL(SanitizeInput(yourlsUrl)).ok => base = ""
    /\ base # "" => ~EndsWith(base, "/")

\* a click on a link is being handled
LinkClicked == hpc # "idle" /\ info.linkUrl # ""

\* the patterns of the table whose host prefix and path prefix match u
MatchingPatterns(u) ==
  { i \in 1..Len(REDIRECT_PATTERNS) :
      /\ StartsWith(u.host, REDIRECT_PATTERNS[i].host_prefix)
      /\ StartsWith(u.pathname, REDIRECT_PATTERNS[i].path) }

\* v without the prefix p when p is set and v starts with it
WithoutValuePrefix(v, p) ==
  IF p # "" /\ StartsWith(v, p) THEN SubSeq(v, Len(p) + 1, Len(v)) ELSE v

\* C13 as claimed: for a link URL the result is the value of the query
\* parameter of the first matching pattern, its value prefix removed, and
\* nothing else is applied to it; the link itself when it does not parse,
\* when no pattern matches, or when that parameter is absent.
C13_RedirectCleaner ==
  LinkClicked =>
    LET u == ParseURL(info.linkUrl)
        first == REDIRECT_PATTERNS[MinOf(MatchingPatterns(u))]
        v == searchParamsGet(From(u.search, 2), first.param)
    IN  urlToShorten =
          IF ~u.ok \/ MatchingPatterns(u) = {} THEN info.linkUrl
          ELSE IF v = JNull THEN info.linkUrl
          ELSE WithoutValuePrefix(v.s, first.prefix_to_strip)

\* C13 as amended: as claimed, but a parameter with an empty value counts
\* as absent and the link is returned unchanged.
C13_RedirectCleanerNonEmpty ==
  LinkClicked =>
    LET u == ParseURL(info.linkUrl)
        first == REDIRECT_PATTERNS[MinOf(MatchingPatterns(u))]
        v == searchParamsGet(From(u.search, 2), first.param)
    IN  urlToShorten =
          IF ~u.ok \/ MatchingPatterns(u) = {} THEN info.linkUrl
          ELSE IF v = JNull \/ v.s = "" THEN info.linkUrl
          ELSE WithoutValuePrefix(v.s, first.prefix_to_strip)

\* C13 witness: the Bing link of the example, cleaned and without "a1"
C13_Witness ==
  /\ hpc = "remove"
  /\ info.linkUrl = "https://www.bing.com/ck/a?u=a1aHR0cHM6Ly9leGFtcGxlLmNvbQ"
  /\ urlToShorten = "aHR0cHM6Ly9leGFtcGxlLmNvbQ"

\* a link whose destination is itself a redirect link is cleaned once
C13_NotChained ==
  (LinkClicked /\ StartsWith(info.linkUrl, "https://www.google.com/url?url=https%3A%2F%2Fwww.youtube"))
    => urlToShorten = "https://www.youtube.com/redirect?q=https://example.com"

\* the selected text holds "http://" or "https://" followed by a character
\* that is no white space
HasUrlInSelection(sel) ==
  \E p \in 1..Len(sel) :
    \E scheme \in {"http://", "https://"} :
      /\ p + Len(scheme) <= Len(sel)
      /\ SubSeq(sel, p, p + Len(scheme) - 1) = scheme
      /\ CharAt(sel, p + Len(scheme)) \notin SpaceChars

\* r is the first such substring of sel, up to the next white space
IsFirstUrlOf(r, sel) ==
  \E p \in 1..Len(sel) :
    /\ ~HasUrlInSelection(SubSeq(sel, 1, p + 6))
    /\ r = SubSeq(sel, p, p + Len(r) - 1)
    /\ \/ StartsWith(r, "http://") /\ Len(r) > 7
       \/ StartsWith(r, "https://") /\ Len(r) > 8
    /\ \A i \in 1..Len(r) : CharAt(r, i) \notin SpaceChars
    /\ p + Len(r) > Len(sel) \/ CharAt(sel, p + Len(r)) \in SpaceChars

\* url is an address of the web
IsWebUrl(url) == StartsWith(url, "http://") \/ StartsWith(url, "https://")

\* the step in which the resolver runs
ResolverStep == hpc = "idle" /\ hpc' = "remove"

\* C14: the resolver gives the cleaned link URL when there is a link URL;
\* else the first http(s):// substring of the selected text, up to the
\* next white space, when there is one; else the page's URL when it is a
\* web address and "" when there is none or it is an about: address; and
\* it makes no API call, writes nothing to storage and notifies nobody.
C14_ResolverPriority ==
  [][ResolverStep =>
       /\ info'.linkUrl # "" => urlToShorten' = CleanRedirect(info'.linkUrl)
       /\ (info'.linkUrl = "" /\ HasUrlInSelection(info'.selectionText)) =>
            IsFirstUrlOf(urlToShorten', info'.selectionText)
       /\ (info'.linkUrl = "" /\ ~HasUrlInSelection(info'.selectionText)) =>
            /\ IsWebUrl(tab'.url) => urlToShorten' = tab'.url
            /\ (tab'.url = "" \/ StartsWith(tab'.url, "about:")) => urlToShorten' = ""
            /\ urlToShorten' \in {tab'.url, ""}
       /\ UNCHANGED <<store, sent, toasts, perms, permQueries>>]_vars

\* C14 witness: no link and no address in the selection, so the page's URL
C14_Witness ==
  /\ hpc = "remove"
  /\ info.linkUrl = ""
  /\ info.selectionText = "no address here"
  /\ tab.url = "https://page.example/"
  /\ urlToShorten = "https://page.example/"

\* C14 witness of the second source: the selection's first address wins
\* over the page
C14_SelectionWitness ==
  /\ hpc = "remove"
  /\ info.linkUrl = ""
  /\ info.selectionText = "HTTPS://UP.example http:// xhttp://in.example/x y"
  /\ tab.url = "https://page.example/"
  /\ urlToShorten = "http://in.example/x"

\* C15: with no link URL and no address in the selection, a page URL of
\* any scheme other than http and https gives the empty string.
C15_NoInternalPage ==
  (/\ hpc # "idle"
   /\ info.linkUrl = ""
   /\ ~HasUrlInSelection(info.selectionText)
   /\ ~IsWebUrl(tab.url)) => urlToShorten = ""

\* the keys of the three Settings fields
SettingsKeys == {"yourlsUrl", "apiSignature", "autoCopy"}

\* the keys under which a click hands its URL to the popup
PrefillKeys == {"yourls_prefill_long", "yourls_prefill_short"}

\* C19 as claimed: after any sequence of clicks the store holds no key but
\* the three Settings fields.
C19_OnlySettingsStored == DOMAIN store \subseteq SettingsKeys

\* C19 as amended: after any sequence of clicks the store holds no key but
\* the three Settings fields and the two prefill keys, and no step adds,
\* removes or changes a Settings field.
C19_OnlySettingsAndPrefillStored ==
  /\ [](DOMAIN store \subseteq SettingsKeys \cup PrefillKeys)
  /\ [][\A k \in SettingsKeys :
          /\ k \in DOMAIN store' <=> k \in DOMAIN store
          /\ k \in DOMAIN store => store'[k] = store[k]]_vars

\* C19 witness: a click on a link to a short URL of the configured service
\* has left it in the store, beside the Settings
C19_Witness ==
  /\ hpc = "done"
  /\ SettingsKeys \subseteq DOMAIN store
  /\ "yourls_prefill_short" \in DOMAIN store
  /\ store["yourls_prefill_short"] = JStr("https://go.example/abc123")

\* the shapes in which a body may carry the short URL, in order
FieldShapes ==
  << Get(ResponseJson, "shorturl"),
     Get(Get(ResponseJson, "url"), "shorturl"),
     Get(Get(ResponseJson, "link"), "shorturl"),
     IF Truthy(Get(ResponseJson, "keyword"))
     THEN JStr(base \o "/" \o ToStr(Get(ResponseJson, "keyword")))
     ELSE JNull >>

\* the first non-empty shape, null when every shape is empty or missing
FirstShape ==
  LET nonEmpty == { i \in 1..Len(FieldShapes) : Truthy(FieldShapes[i]) }
  IN  IF nonEmpty = {} THEN JNull ELSE FieldShapes[MinOf(nonEmpty)]

\* the message of the body carries no "(short URL: <url>)"
NoParenthetical == ShortUrlCapture(ToStr(Get(ResponseJson, "message"))) = ""

\* C21: the short URL Shorten extracts from the body's fields is the first
\* non-empty one of json.shorturl, json.url.shorturl, json.link.shorturl and
\* base + "/" + json.keyword, and null when there is none or the body is
\* no JSON: a new short URL is that shape, an existing one without a
\* parenthetical is that shape or null, and an ok answer with a non-empty
\* shape never fails.
C21_FirstShapeWins ==
  (msg.type = "SHORTEN_URL" /\ Normalized) =>
    /\ (outcome.k = "env" /\ ~outcome.env.already) =>
         outcome.env.shortUrl = FirstShape /\ FirstShape # JNull
    /\ (outcome.k = "env" /\ outcome.env.already /\ NoParenthetical) =>
         outcome.env.shortUrl = FirstShape
    /\ (ResOk(status) /\ FirstShape # JNull) => outcome.k = "env"
    /\ ~Truthy(ResponseJson) => FirstShape = JNull /\ outcome.k = "throw"

\* C21 witness: an empty shorturl, a url.shorturl and a keyword: the second
\* shape is returned
C21_Witness ==
  /\ msg.type = "SHORTEN_URL"
  /\ Normalized
  /\ status = 200
  /\ text = "{\"shorturl\":\"\",\"url\":{\"shorturl\":\"https://go.example/u1\"},\"keyword\":\"kw1\"}"
  /\ outcome.env.shortUrl = JStr("https://go.example/u1")

\* Shorten has failed on a body whose message does not say "already exists"
ShortenFailed ==
  msg.type = "SHORTEN_URL" /\ Normalized /\ outcome.k = "throw" /\ ~BodySaysAlreadyExists

\* the error of a failed Shorten: the message of a body with status "fail",
\* else the HTTP status and the first 200 characters of the body
ShortenFailure ==
  IF Get(ResponseJson, "status") = JStr("fail") /\ Truthy(Get(ResponseJson, "message"))
  THEN ToStr(Get(ResponseJson, "message"))
  ELSE "HTTP " \o NatToStr(status) \o
       (IF text = "" THEN "" ELSE ": " \o SubSeq(text, 1, IF Len(text) < 200 THEN Len(text) ELSE 200))

\* C22 as claimed: a failed Shorten throws the body's message verbatim when
\* the body has status "fail" and a non-empty message, else "HTTP <status>"
\* and at most the first 200 characters of the body, and the listener
\* replies with that text as the reason.
C22_ShortenFailure ==
  ShortenFailed =>
    /\ outcome.err = ShortenFailure
    /\ reply.env = FailEnv(ShortenFailure)

\* C22 as amended: as claimed, but when the text says that a keyword
\* already exists the reason is the fixed KeywordExists message.
C22_ShortenFailureUnlessKeywordExists ==
  ShortenFailed =>
    /\ outcome.err = ShortenFailure
    /\ reply.env =
         FailEnv(IF \E i \in 1..Len(ShortenFailure) :
                      /\ i + 6 <= Len(ShortenFailure)
                      /\ ToLower(SubSeq(ShortenFailure, i, i + 6)) = "keyword"
                      /\ Contains(ToLower(From(ShortenFailure, i + 7)), "already exists")
                 THEN getMessage("errorKeywordExists")
                 ELSE ShortenFailure)

\* C22 witness: an error page of more than 200 characters, cut at 200
C22_Witness ==
  /\ ShortenFailed
  /\ status = 500
  /\ Len(text) > 200
  /\ Len(outcome.err) = 210
  /\ reply.env.reason = outcome.err

\* C22 witness of the other case: the message of a "fail" body, verbatim
C22_MessageWitness ==
  /\ ShortenFailed
  /\ status = 200
  /\ outcome.err = "Missing or malformed URL"
  /\ reply.env.reason = "Missing or malformed URL"

\* the input of the Delete request resolves to no keyword: it is empty or
\* blank, or a URL of the service's origin without a path segment
NoKeywordToDelete ==
  \/ Trim(msg.shortUrl) = ""
  \/ /\ SameOrigin(Trim(msg.shortUrl), base)
     /\ LastNonEmptySegment(ParseURL(msg.shortUrl).pathname) = ""

\* C27: a Delete request whose input resolves to no keyword fails with the
\* fixed "enter keyword to delete" error once the settings are read, with
\* no permission query and no request sent, and the listener replies
\* {ok: false, reason} with that error.
C27_DeleteWithoutKeyword ==
  (msg.type = "DELETE_SHORTURL" /\ SettingsRead /\ NoKeywordToDelete) =>
    /\ pc = "done"
    /\ outcome = Thrown(getMessage("errorEnterKeywordToDelete"))
    /\ reply.env = FailEnv(getMessage("errorEnterKeywordToDelete"))
    /\ permQueries = 0
    /\ permState = "none"
    /\ sent = <<>>
    /\ toasts = <<>>

\* C27 witness: the address of the service itself, with the permission held
C27_Witness ==
  /\ msg.type = "DELETE_SHORTURL"
  /\ pc = "done"
  /\ msg.shortUrl = "https://go.example/"
  /\ base = "https://go.example"
  /\ perms # {}
  /\ ~reply.env.ok
  /\ sent = <<>>

\* C23: in every state, concurrent invocations of handleAction included,
\* at most one of yourls_prefill_long and yourls_prefill_short is in the
\* store, and yourls_prefill_short only with a value that starts with the
\* sanitized base URL.
C23_PrefillExclusive ==
  /\ ~(PrefillKeys \subseteq DOMAIN store)
  /\ "yourls_prefill_short" \in DOMAIN store =>
       /\ sanitizeBaseUrl(StoredSettings.yourlsUrl) # ""
       /\ StartsWith(ToStr(store["yourls_prefill_short"]),
                     sanitizeBaseUrl(StoredSettings.yourlsUrl))

\* popup i has read the prefill keys
PrefillRead(i) == pops[i].pc \in {"tab", "remove", "ready"}

\* C24: when the popup a click opened has read the prefill keys, it has
\* found the URL handleAction resolved for that click: the write comes
\* before the read, and what the popup takes from the store is never the
\* URL of another click.
C24_WriteBeforeRead ==
  \A i \in Invocations :
    (PrefillRead(i) /\ acts[i].url # "") =>
      pops[i].from = "storage" /\ pops[i].url = acts[i].url

\* every click made so far has been worked off: handleAction has returned
\* and the popup's DOMContentLoaded handler has ended
HandoffComplete ==
  /\ acts[1].pc # "idle"
  /\ \A i \in Invocations :
       /\ acts[i].pc \in {"idle", "done"}
       /\ pops[i].pc \in {"closed", "setup", "ready"}

\* C25: once handleAction and the initialization of the popup it opened
\* have both run to completion, configured or not, neither prefill key is
\* left in the store.
C25_PrefillConsumed == HandoffComplete => DOMAIN store \cap PrefillKeys = {}

\* the number of clicks among the first n that did what
ClicksThat(what, n) == Cardinality({ k \in 1..n : clicks[k] = what })

\* C26: DELETE_SHORTURL is sent only by a click on btnDelete made while the
\* button is in the confirm-delete state, so never by the first click and
\* never without an arming click before it that no other sending click has
\* used up; the confirm-delete state ends only by a timer or by the click
\* that sends; and there are never more requests than arming clicks.
C26_TwoStepDelete ==
  /\ [][deletes' # deletes =>
          /\ confirm /\ ~confirm'
          /\ clicks' = Append(clicks, "send")
          /\ Len(deletes') = Len(deletes) + 1]_vars
  /\ [][(confirm /\ ~confirm') => (timers' = timers - 1 \/ Len(deletes') = Len(deletes) + 1)]_vars
  /\ [](\A k \in 1..Len(clicks) :
          clicks[k] = "send" =>
            /\ k > 1
            /\ \E j \in 1..(k - 1) :
                 /\ clicks[j] = "arm"
                 /\ \A m \in (j + 1)..(k - 1) : clicks[m] # "send")
  /\ [](/\ Len(deletes) = ClicksThat("send", Len(clicks))
        /\ \A n \in 0..Len(clicks) : ClicksThat("send", n) <= ClicksThat("arm", n))

\* C26 witness: armed, taken back by the timer, armed again and confirmed:
\* one request after three clicks
C26_Witness ==
  /\ clicks = <<"arm", "arm", "send">>
  /\ deletes = <<"abc123">>
  /\ timers = 1
  /\ ~confirm

====
